---------------------------- MODULE Spec2Model ----------------------------
(***************************************************************************)
(* pennybase: the append-only versioned Row Log (csvDB), the Schema        *)
(* projection and the Collection Store, modelled from src/pennybase.go.    *)
(*                                                                         *)
(* Text is a sequence of one-character strings, so that strconv and        *)
(* encoding/csv are computed character by character and the file is a      *)
(* sequence of bytes with real byte offsets.  The inputs are drawn from    *)
(* an alphabet of letters, digits, comma, double quote and line feed; a    *)
(* carriage return is handled by the csv operators but is not among the    *)
(* inputs (encoding/csv rewrites CR LF inside a quoted field to LF).       *)
(***************************************************************************)
EXTENDS Integers, Sequences, FiniteSets, TLC

VARIABLES
    db,      \* the csvDB: [file, index, version]
    pre,     \* the csvDB as it was when the last operation was called
    ret,     \* the last operation: [op, arg, err, out]
    track,   \* per identifier: the Create/Update chain since its last Create
    nrows,   \* number of rows appended so far
    pc,      \* per thread: position in its program
    loc,     \* per thread: local variables
    mu       \* holder of csvDB.mu, or NoThread

vars == <<db, pre, ret, track, nrows, pc, loc, mu>>

----------------------------------------------------------------------------
(* Bounds *)

MaxRows == 3

MaxThreads == 3

MaxCalls == 2

----------------------------------------------------------------------------
(* Errors *)

NoErr == "nil"

ErrInvalidRecord == "invalid record"

ErrInvalidVersion == "invalid record version"

ErrNotFound == "record not found"

ErrCorruptedIndex == "corrupted index"

ErrEOF == "EOF"

ErrBareQuote == "bare \" in non-quoted-field"

ErrQuote == "extraneous or missing \" in quoted-field"

Panic == "panic: index out of range"

----------------------------------------------------------------------------
(* strconv *)

Digits == <<"0", "1", "2", "3", "4", "5", "6", "7", "8", "9">>

DigitVal(c) == (CHOOSE i \in 1..10 : Digits[i] = c) - 1

IsDigit(c) == \E i \in 1..10 : Digits[i] = c

RECURSIVE FormatNat(_)
FormatNat(n) ==
    IF n < 10 THEN <<Digits[n + 1]>>
    ELSE FormatNat(n \div 10) \o <<Digits[(n % 10) + 1]>>

\* strconv.FormatInt(n, 10)
FormatInt(n) == IF n < 0 THEN <<"-">> \o FormatNat(-n) ELSE FormatNat(n)

RECURSIVE ParseNat(_, _)
ParseNat(s, acc) ==
    IF s = <<>> THEN acc
    ELSE ParseNat(Tail(s), acc * 10 + DigitVal(Head(s)))

\* strconv.ParseInt(s, 10, 64): an optional sign, then one or more digits;
\* on a syntax error the value is 0.
ParseInt(s) ==
    LET signed == s # <<>> /\ Head(s) \in {"+", "-"}
        body   == IF signed THEN Tail(s) ELSE s
        ok     == body # <<>> /\ \A i \in 1..Len(body) : IsDigit(body[i])
    IN  IF ~ok THEN [val |-> 0, ok |-> FALSE]
        ELSE [val |-> IF signed /\ Head(s) = "-" THEN -ParseNat(body, 0)
                      ELSE ParseNat(body, 0),
              ok |-> TRUE]

----------------------------------------------------------------------------
(* encoding/csv Writer *)

Contains(s, c) == \E i \in 1..Len(s) : s[i] = c

IsSpace(c) == c \in {" ", "\t", "\n", "\r", "\f"}

\* (*Writer).fieldNeedsQuotes
fieldNeedsQuotes(field) ==
    IF field = <<>> THEN FALSE
    ELSE IF field = <<"\\", ".">> THEN TRUE
    ELSE \/ \E i \in 1..Len(field) : field[i] \in {"\n", "\r", "\"", ","}
         \/ IsSpace(field[1])

RECURSIVE escapeQuotes(_)
escapeQuotes(field) ==
    IF field = <<>> THEN <<>>
    ELSE (IF Head(field) = "\"" THEN <<"\"", "\"">> ELSE <<Head(field)>>)
         \o escapeQuotes(Tail(field))

writeField(field) ==
    IF fieldNeedsQuotes(field)
    THEN <<"\"">> \o escapeQuotes(field) \o <<"\"">>
    ELSE field

RECURSIVE writeFields(_)
writeFields(r) ==
    IF r = <<>> THEN <<>>
    ELSE IF Len(r) = 1 THEN writeField(r[1])
    ELSE writeField(r[1]) \o <<",">> \o writeFields(Tail(r))

\* (*Writer).Write followed by Flush: the bytes one record adds to the file
csvWrite(r) == writeFields(r) \o <<"\n">>


----------------------------------------------------------------------------
(* encoding/csv Reader (LazyQuotes = false, TrimLeadingSpace = false).      *)
(* An offset is a number of bytes from the start of the file.               *)

IndexOf(s, c) ==
    IF Contains(s, c) THEN CHOOSE i \in 1..Len(s) :
                               s[i] = c /\ \A j \in 1..(i - 1) : s[j] # c
    ELSE 0

lengthNL(line) == IF line # <<>> /\ line[Len(line)] = "\n" THEN 1 ELSE 0

\* (*Reader).readLine: the line starting at off, its line feed included,
\* CR LF normalised to LF, and the offset after it
readLine(data, off) ==
    IF off >= Len(data) THEN [eof |-> TRUE, line |-> <<>>, next |-> off]
    ELSE LET j == IndexOf(SubSeq(data, off + 1, Len(data)), "\n") IN
         IF j = 0
         THEN LET raw == SubSeq(data, off + 1, Len(data)) IN
              [eof  |-> FALSE,
               line |-> IF raw[Len(raw)] = "\r"
                        THEN SubSeq(raw, 1, Len(raw) - 1) ELSE raw,
               next |-> Len(data)]
         ELSE LET raw == SubSeq(data, off + 1, off + j) IN
              [eof  |-> FALSE,
               line |-> IF Len(raw) >= 2 /\ raw[Len(raw) - 1] = "\r"
                        THEN SubSeq(raw, 1, Len(raw) - 2) \o <<"\n">>
                        ELSE raw,
               next |-> off + j]

RECURSIVE parseField(_, _, _, _)
RECURSIVE parseQuoted(_, _, _, _, _)

\* (*Reader).readRecord, the parseField loop: the fields of the record whose
\* unread part is line; next is the offset after line
parseField(data, line, next, fields) ==
    IF line = <<>> \/ line[1] # "\""
    THEN LET i     == IndexOf(line, ",")
             field == IF i > 0 THEN SubSeq(line, 1, i - 1)
                      ELSE SubSeq(line, 1, Len(line) - lengthNL(line))
         IN  IF Contains(field, "\"")
             THEN [err |-> ErrBareQuote, rec |-> <<>>, next |-> next]
             ELSE IF i > 0
             THEN parseField(data, SubSeq(line, i + 1, Len(line)), next,
                             Append(fields, field))
             ELSE [err |-> NoErr, rec |-> Append(fields, field), next |-> next]
    ELSE parseQuoted(data, Tail(line), next, fields, <<>>)

\* the quoted-field branch: cur is the field read so far
parseQuoted(data, line, next, fields, cur) ==
    LET i == IndexOf(line, "\"") IN
    IF i > 0
    THEN LET cur2 == cur \o SubSeq(line, 1, i - 1)
             rest == SubSeq(line, i + 1, Len(line))
         IN  IF rest # <<>> /\ rest[1] = "\""
             THEN parseQuoted(data, Tail(rest), next, fields, Append(cur2, "\""))
             ELSE IF rest # <<>> /\ rest[1] = ","
             THEN parseField(data, Tail(rest), next, Append(fields, cur2))
             ELSE IF lengthNL(rest) = Len(rest)
             THEN [err |-> NoErr, rec |-> Append(fields, cur2), next |-> next]
             ELSE [err |-> ErrQuote, rec |-> <<>>, next |-> next]
    ELSE IF Len(line) > 0
    THEN LET lr == readLine(data, next) IN
         parseQuoted(data, lr.line, lr.next, fields, cur \o line)
    ELSE [err |-> ErrQuote, rec |-> <<>>, next |-> next]

RECURSIVE csvRead(_, _)
\* (*Reader).Read at offset off: empty lines are skipped; next is
\* InputOffset() after the call
csvRead(data, off) ==
    LET lr == readLine(data, off) IN
    IF lr.eof THEN [err |-> ErrEOF, rec |-> <<>>, next |-> off]
    ELSE IF lr.line = <<"\n">> THEN csvRead(data, lr.next)
    ELSE parseField(data, lr.line, lr.next, <<>>)

----------------------------------------------------------------------------
(* csvDB *)

\* a Go map assignment m[k] = v
Put(m, k, v) == [x \in (DOMAIN m) \cup {k} |-> IF x = k THEN v ELSE m[x]]

EmptyMap == [x \in {} |-> 0]

\* db.version[id]: the zero value when the key is absent
verOf(d, id) == IF id \in DOMAIN d.version THEN d.version[id] ELSE 0

EmptyDB == [file |-> <<>>, index |-> EmptyMap, version |-> EmptyMap]

RECURSIVE scanFirstWins(_, _, _)
\* scan with the bug "an identifier already indexed is not overwritten"
scanFirstWins(data, off, d) ==
    LET r == csvRead(data, off) IN
    IF r.err = ErrEOF THEN [err |-> NoErr, db |-> d]
    ELSE IF r.err # NoErr THEN [err |-> r.err, db |-> EmptyDB]
    ELSE IF Len(r.rec) = 0 THEN scanFirstWins(data, r.next, d)
    ELSE IF Len(r.rec) < 2 THEN [err |-> Panic, db |-> EmptyDB]
    ELSE IF r.rec[1] \in DOMAIN d.index THEN scanFirstWins(data, r.next, d)
    ELSE scanFirstWins(data, r.next,
              [d EXCEPT !.index   = Put(d.index, r.rec[1], off),
                        !.version = Put(d.version, r.rec[1],
                                        ParseInt(r.rec[2]).val)])

RECURSIVE scan(_, _, _)
\* the loop of NewCSVDB from offset off on
scan(data, off, d) ==
    LET r == csvRead(data, off) IN
    IF r.err = ErrEOF THEN [err |-> NoErr, db |-> d]
    ELSE IF r.err # NoErr THEN [err |-> r.err, db |-> EmptyDB]
    ELSE IF Len(r.rec) = 0 THEN scan(data, r.next, d)
    ELSE IF Len(r.rec) < 2 THEN [err |-> Panic, db |-> EmptyDB]
    ELSE scan(data, r.next,
              [d EXCEPT !.index   = Put(d.index, r.rec[1], off),
                        !.version = Put(d.version, r.rec[1],
                                        ParseInt(r.rec[2]).val)])

\* NewCSVDB(path) on a file holding data
NewCSVDB(data) == scan(data, 0, [EmptyDB EXCEPT !.file = data])

\* append, line 167: db.f.Seek(0, io.SeekEnd)
appendSeek(d) == Len(d.file)

\* appendWrite with the bug "the file is written from its start"
appendWriteFromStart(d, r) == [d EXCEPT !.file = csvWrite(r)]

\* append, lines 168-172: db.w.Write(r); db.w.Flush()
appendWrite(d, r) == [d EXCEPT !.file = d.file \o csvWrite(r)]

\* appendIndex with the bug "the offset of an indexed identifier is kept"
appendIndexKeepFirst(d, r, pos) ==
    IF r[1] \in DOMAIN d.index THEN d
    ELSE [d EXCEPT !.index = Put(d.index, r[1], pos)]

\* append, line 173: db.index[r[0]] = pos
appendIndex(d, r, pos) == [d EXCEPT !.index = Put(d.index, r[1], pos)]

\* appendVersion with the bug "a tombstone leaves the version as it was"
appendVersionSkipTombstone(d, r) ==
    IF r[2] = <<"0">> THEN d
    ELSE [d EXCEPT !.version = Put(d.version, r[1], ParseInt(r[2]).val)]

\* append, line 174: db.version[r[0]], err = strconv.ParseInt(r[1], 10, 64)
appendVersion(d, r) ==
    [d EXCEPT !.version = Put(d.version, r[1], ParseInt(r[2]).val)]

\* (*csvDB).append
append(d, r) ==
    LET pos == appendSeek(d) IN
    [db  |-> appendVersion(appendIndex(appendWrite(d, r), r, pos), r),
     err |-> IF ParseInt(r[2]).ok THEN NoErr ELSE "strconv: invalid syntax"]

\* the condition of Create, line 181, evaluated left to right
CreateCheck(d, r) ==
    IF Len(r) = 0 THEN Panic
    ELSE IF r[1] = <<>> THEN ErrInvalidRecord
    ELSE IF Len(r) < 2 THEN Panic
    ELSE IF r[2] # <<"1">> \/ verOf(d, r[1]) # 0 THEN ErrInvalidRecord
    ELSE NoErr

\* (*csvDB).Create
Create(d, r) ==
    IF CreateCheck(d, r) # NoErr THEN [db |-> d, err |-> CreateCheck(d, r)]
    ELSE append(d, r)

\* UpdateCheck with the bug "any version above the current one is accepted"
UpdateCheckAtLeast(d, r) ==
    IF Len(r) = 0 THEN ErrInvalidVersion
    ELSE IF Len(r) < 2 THEN Panic
    ELSE IF ParseInt(r[2]).val <= verOf(d, r[1]) THEN ErrInvalidVersion
    ELSE NoErr

\* UpdateCheck with the bug "the version is not compared"
UpdateCheckNoVersion(d, r) ==
    IF Len(r) = 0 THEN ErrInvalidVersion
    ELSE IF Len(r) < 2 THEN Panic
    ELSE NoErr

\* the condition of Update, line 190, evaluated left to right
UpdateCheck(d, r) ==
    IF Len(r) = 0 THEN ErrInvalidVersion
    ELSE IF Len(r) < 2 THEN Panic
    ELSE IF r[2] # FormatInt(verOf(d, r[1]) + 1) THEN ErrInvalidVersion
    ELSE NoErr

\* (*csvDB).Update
Update(d, r) ==
    IF UpdateCheck(d, r) # NoErr THEN [db |-> d, err |-> UpdateCheck(d, r)]
    ELSE append(d, r)

\* DeleteCheck with the bug "the current version is not looked at"
DeleteCheckNone(d, id) == NoErr

\* the condition of Delete, line 199
DeleteCheck(d, id) == IF verOf(d, id) < 1 THEN ErrNotFound ELSE NoErr

\* (*csvDB).Delete
Delete(d, id) ==
    IF DeleteCheck(d, id) # NoErr THEN [db |-> d, err |-> DeleteCheck(d, id)]
    ELSE append(d, <<id, <<"0">> >>)

\* (*csvDB).Get
Get(d, id) ==
    IF verOf(d, id) < 1 THEN [rec |-> <<>>, err |-> ErrNotFound]
    ELSE IF id \notin DOMAIN d.index THEN [rec |-> <<>>, err |-> NoErr]
    ELSE LET r == csvRead(d.file, d.index[id]) IN
         IF r.err # NoErr THEN [rec |-> <<>>, err |-> r.err]
         ELSE IF Len(r.rec) > 0 /\ r.rec[1] # id
         THEN [rec |-> <<>>, err |-> ErrCorruptedIndex]
         ELSE [rec |-> r.rec, err |-> NoErr]

RECURSIVE iterFrom(_, _, _)
\* the loop of Iter from offset off on; out is what has been yielded
iterFrom(d, off, out) ==
    LET r == csvRead(d.file, off) IN
    IF r.err = ErrEOF THEN [rows |-> out, err |-> NoErr]
    ELSE IF r.err # NoErr THEN [rows |-> out, err |-> r.err]
    ELSE IF Len(r.rec) < 2 THEN iterFrom(d, r.next, out)
    ELSE IF \/ r.rec[2] = <<"0">>
            \/ r.rec[2] # FormatInt(verOf(d, r.rec[1]))
    THEN iterFrom(d, r.next, out)
    ELSE iterFrom(d, r.next, Append(out, r.rec))

\* (*csvDB).Iter, drained by its consumer
Iter(d) == iterFrom(d, 0, <<>>)

----------------------------------------------------------------------------
(* Inputs of the Row Log operations *)

IdA == <<"a">>

IdB == <<"b">>

IdEmpty == <<>>

Ids == {IdA, IdB}

AllIds == Ids \cup {IdEmpty}

DataX == <<"x">>

\* a cell the writer has to quote: comma, quote and line feed
DataQ == <<"y", ",", "\"", "\n">>

Data == {DataX, DataQ}

\* the canonical decimals the bounds can reach, and a non-canonical one
Versions == {FormatInt(n) : n \in 0..MaxRows} \cup {<<"0", "1">>}

FullRows == {<<i, v, d>> : i \in Ids, v \in Versions, d \in Data}

ShortRows == {<<>>, <<IdA>>, <<IdEmpty>>}

Rows == FullRows \cup ShortRows
        \cup {<<IdEmpty, <<"1">>, DataX>>, <<IdB, <<"1">> >>}

NoThread == -1

NoTrack == [live |-> FALSE, k |-> 0, row |-> <<>>]

----------------------------------------------------------------------------
(* The Row Log used by one caller at a time *)

Init ==
    /\ db = EmptyDB
    /\ pre = EmptyDB
    /\ ret = [op |-> "NewCSVDB", arg |-> <<>>, err |-> NoErr, out |-> <<>>]
    /\ track = [i \in AllIds |-> NoTrack]
    /\ nrows = 0
    /\ pc = <<>>
    /\ loc = <<>>
    /\ mu = NoThread

Threadless == UNCHANGED <<pc, loc, mu>>

Grown(res) == IF res.db.file # db.file THEN nrows + 1 ELSE nrows

DoCreate(r) ==
    /\ nrows < MaxRows
    /\ LET res == Create(db, r) IN
       /\ db' = res.db
       /\ pre' = db
       /\ ret' = [op |-> "Create", arg |-> r, err |-> res.err, out |-> <<>>]
       /\ track' = IF res.err = NoErr
                   THEN [track EXCEPT ![r[1]] =
                            [live |-> TRUE, k |-> 0, row |-> r]]
                   ELSE track
       /\ nrows' = Grown(res)
    /\ Threadless

DoUpdate(r) ==
    /\ nrows < MaxRows
    /\ LET res == Update(db, r) IN
       /\ db' = res.db
       /\ pre' = db
       /\ ret' = [op |-> "Update", arg |-> r, err |-> res.err, out |-> <<>>]
       /\ track' = IF res.err = NoErr /\ track[r[1]].live
                   THEN [track EXCEPT ![r[1]] =
                            [live |-> TRUE, k |-> @.k + 1, row |-> r]]
                   ELSE track
       /\ nrows' = Grown(res)
    /\ Threadless

DoDelete(id) ==
    /\ nrows < MaxRows
    /\ LET res == Delete(db, id) IN
       /\ db' = res.db
       /\ pre' = db
       /\ ret' = [op |-> "Delete", arg |-> id, err |-> res.err, out |-> <<>>]
       /\ track' = IF res.err = NoErr
                   THEN [track EXCEPT ![id] = NoTrack]
                   ELSE track
       /\ nrows' = Grown(res)
    /\ Threadless

DoGet(id) ==
    /\ LET res == Get(db, id) IN
       ret' = [op |-> "Get", arg |-> id, err |-> res.err, out |-> res.rec]
    /\ pre' = db
    /\ UNCHANGED <<db, track, nrows>>
    /\ Threadless

DoIter ==
    /\ LET res == Iter(db) IN
       ret' = [op |-> "Iter", arg |-> <<>>, err |-> res.err, out |-> res.rows]
    /\ pre' = db
    /\ UNCHANGED <<db, track, nrows>>
    /\ Threadless

\* Close, then NewCSVDB on the same path
DoReopen ==
    /\ LET res == NewCSVDB(db.file) IN
       /\ db' = res.db
       /\ ret' = [op |-> "NewCSVDB", arg |-> <<>>, err |-> res.err,
                  out |-> <<>>]
    /\ pre' = db
    /\ UNCHANGED <<track, nrows>>
    /\ Threadless

Next ==
    \/ \E r \in Rows : DoCreate(r)
    \/ \E r \in Rows : DoUpdate(r)
    \/ \E id \in AllIds : DoDelete(id)
    \/ \E id \in AllIds : DoGet(id)
    \/ DoIter
    \/ DoReopen

Spec == Init /\ [][Next]_vars

----------------------------------------------------------------------------
(* Helpers of the properties *)

RECURSIVE RowStarts(_, _)
\* the offsets at which the records of data start, from offset off on
RowStarts(data, off) ==
    LET r == csvRead(data, off) IN
    IF r.err # NoErr THEN {} ELSE {off} \cup RowStarts(data, r.next)

RowAt(data, off) == csvRead(data, off).rec

\* the offsets of the rows of identifier id in data
StartsOf(data, id) ==
    {o \in RowStarts(data, 0) : RowAt(data, o) # <<>> /\ RowAt(data, o)[1] = id}

Max(S) == CHOOSE m \in S : \A n \in S : n <= m

HasVersionField(r) == Len(r) >= 2

----------------------------------------------------------------------------
(* Properties of the Row Log, checked under Spec *)

\* C1: an Update whose version field is not the decimal text of the current
\* version plus one returns the invalid-version error and leaves the file,
\* the offset index and the version map as they were; a replayed Update is
\* such a call.
C1_UpdateWrongVersionRejected ==
    (/\ ret.op = "Update"
     /\ HasVersionField(ret.arg)
     /\ ret.arg[2] # FormatInt(verOf(pre, ret.arg[1]) + 1))
    => (ret.err = ErrInvalidVersion /\ db = pre)

\* C1 witness: an Update that was applied at version >= 2 is replayed and
\* rejected
C1_Witness ==
    /\ ret.op = "Update"
    /\ HasVersionField(ret.arg)
    /\ verOf(pre, ret.arg[1]) >= 2
    /\ ret.arg[2] = FormatInt(verOf(pre, ret.arg[1]))
    /\ Get(pre, ret.arg[1]).rec = ret.arg
    /\ ret.err = ErrInvalidVersion

\* C2: when the current version of r[0] is 0, Update(r) fails for every
\* version value, "1" included, and appends nothing.
C2_UpdateNeedsLiveId ==
    (/\ ret.op = "Update"
     /\ HasVersionField(ret.arg)
     /\ verOf(pre, ret.arg[1]) = 0)
    => (ret.err # NoErr /\ db.file = pre.file)

\* C3: Create(row) succeeds iff the row has at least 2 fields, field 0 is
\* non-empty, field 1 is "1" and the current version of field 0 is 0; in
\* every other case it returns the invalid-record error and appends nothing.
C3_CreateIffValid ==
    ret.op = "Create" =>
        IF /\ Len(ret.arg) >= 2
           /\ ret.arg[1] # <<>>
           /\ ret.arg[2] = <<"1">>
           /\ verOf(pre, ret.arg[1]) = 0
        THEN ret.err = NoErr /\ db.file = pre.file \o csvWrite(ret.arg)
        ELSE ret.err = ErrInvalidRecord /\ db = pre

\* C4: Iter yields exactly one row for each identifier whose current
\* version is >= 1, namely its latest row, nothing for the others, and the
\* rows in file order; an identifier created, deleted and created again
\* yields only its new row.
C4_IterYieldsLatestOnly ==
    ret.op = "Iter" =>
        LET rows == ret.out IN
        /\ ret.err = NoErr
        /\ \A id \in DOMAIN db.version :
              Cardinality({i \in 1..Len(rows) : rows[i][1] = id})
                  = (IF db.version[id] >= 1 THEN 1 ELSE 0)
        /\ \A i \in 1..Len(rows) :
              rows[i] = RowAt(db.file, Max(StartsOf(db.file, rows[i][1])))
        /\ \A i, j \in 1..Len(rows) :
              i < j => Max(StartsOf(db.file, rows[i][1]))
                           < Max(StartsOf(db.file, rows[j][1]))

\* C5: Delete(id) succeeds iff the current version of id is >= 1; it then
\* appends the tombstone (id, "0") and sets the current version to 0, and
\* Get(id) fails with not-found until a later Create; Delete of an absent or
\* deleted id fails with not-found and appends nothing.
C5_DeleteThenNotFoundUntilCreate ==
    /\ ret.op = "Delete" =>
          IF verOf(pre, ret.arg) >= 1
          THEN /\ ret.err = NoErr
               /\ db.file = pre.file \o csvWrite(<<ret.arg, <<"0">> >>)
               /\ verOf(db, ret.arg) = 0
               /\ Get(db, ret.arg).err = ErrNotFound
          ELSE ret.err = ErrNotFound /\ db = pre
    /\ \A id \in AllIds :
          (/\ id \in DOMAIN pre.version
           /\ pre.version[id] = 0
           /\ Get(db, id).err # ErrNotFound)
          => ret.op = "Create"

C8_IndexConsistent ==
    /\ DOMAIN db.index = {RowAt(db.file, o)[1] : o \in RowStarts(db.file, 0)}
    /\ DOMAIN db.version = DOMAIN db.index
    /\ \A id \in DOMAIN db.index :
          LET last == Max(StartsOf(db.file, id)) IN
          /\ db.index[id] = last
          /\ FormatInt(db.version[id]) = RowAt(db.file, last)[2]

\* C8 witness: three rows, one of them quoted over two lines and followed by
\* another row, and a tombstone
C8_Witness ==
    /\ nrows >= 3
    /\ \E id \in DOMAIN db.version : db.version[id] = 0
    /\ \E o \in RowStarts(db.file, 0) :
          /\ Len(RowAt(db.file, o)) = 3
          /\ RowAt(db.file, o)[3] = DataQ
          /\ \E id \in DOMAIN db.index : db.index[id] > o

----------------------------------------------------------------------------
(* Concurrent callers of one Row Log: TestConcurrent.  Every public         *)
(* operation starts with db.mu.Lock() and ends, by defer, with              *)
(* db.mu.Unlock(); between them append seeks, writes and flushes, sets the  *)
(* index and sets the version, one step each.  Each thread creates the row  *)
(* of its own identifier, then gets it; a reader thread gets any of the     *)
(* identifiers at any time; after the join the caller gets every            *)
(* identifier and iterates.                                                 *)

Threads == 1..MaxThreads

Reader == 0

\* strconv.Itoa(i)
ThreadId(t) == FormatInt(t)

Unset == "unset"

NoResult == [rec |-> <<>>, err |-> Unset]

\* Lock with the bug "the mutex excludes nobody"
CanLockAlways(t) == TRUE

\* db.mu.Lock() returns only when no other caller holds the mutex
CanLock(t) == mu = NoThread

InitConc ==
    /\ db = EmptyDB
    /\ pre = EmptyDB
    /\ ret = [op |-> "NewCSVDB", arg |-> <<>>, err |-> NoErr, out |-> <<>>]
    /\ track = [i \in AllIds |-> NoTrack]
    /\ nrows = 0
    /\ pc = [t \in Threads \cup {Reader} |->
                IF t = Reader THEN "idle" ELSE "create"]
    /\ \E data \in [Threads -> Data] :
          loc = [t \in Threads \cup {Reader} |->
                    IF t = Reader
                    THEN [id |-> <<>>, calls |-> 0]
                    ELSE [row |-> <<ThreadId(t), <<"1">>, data[t]>>,
                          pos |-> 0, createErr |-> Unset, got |-> NoResult]]
    /\ mu = NoThread

ConcGhosts == UNCHANGED <<pre, track, nrows>>

\* Create, line 179: db.mu.Lock()
TCreateLock(t) ==
    /\ pc[t] = "create"
    /\ CanLock(t)
    /\ mu' = t
    /\ pc' = [pc EXCEPT ![t] = "create_check"]
    /\ UNCHANGED <<db, ret, loc>>
    /\ ConcGhosts

\* Create, lines 181-183, and append, line 167
TCreateCheck(t) ==
    /\ pc[t] = "create_check"
    /\ LET err == CreateCheck(db, loc[t].row) IN
       IF err # NoErr
       THEN /\ loc' = [loc EXCEPT ![t].createErr = err]
            /\ mu' = NoThread
            /\ pc' = [pc EXCEPT ![t] = "get"]
       ELSE /\ loc' = [loc EXCEPT ![t].pos = appendSeek(db)]
            /\ mu' = mu
            /\ pc' = [pc EXCEPT ![t] = "write"]
    /\ UNCHANGED <<db, ret>>
    /\ ConcGhosts

\* append, lines 168-172
TWrite(t) ==
    /\ pc[t] = "write"
    /\ db' = appendWrite(db, loc[t].row)
    /\ pc' = [pc EXCEPT ![t] = "index"]
    /\ UNCHANGED <<ret, loc, mu>>
    /\ ConcGhosts

\* append, line 173
TIndex(t) ==
    /\ pc[t] = "index"
    /\ db' = appendIndex(db, loc[t].row, loc[t].pos)
    /\ pc' = [pc EXCEPT ![t] = "version"]
    /\ UNCHANGED <<ret, loc, mu>>
    /\ ConcGhosts

\* append, lines 174-175, and the deferred db.mu.Unlock() of Create
TVersion(t) ==
    /\ pc[t] = "version"
    /\ db' = appendVersion(db, loc[t].row)
    /\ loc' = [loc EXCEPT ![t].createErr =
                  IF ParseInt(loc[t].row[2]).ok THEN NoErr
                  ELSE "strconv: invalid syntax"]
    /\ mu' = NoThread
    /\ pc' = [pc EXCEPT ![t] = "get"]
    /\ UNCHANGED ret
    /\ ConcGhosts

\* Get, line 206: db.mu.Lock()
TGetLock(t) ==
    /\ pc[t] = "get"
    /\ CanLock(t)
    /\ mu' = t
    /\ pc' = [pc EXCEPT ![t] = "get_read"]
    /\ UNCHANGED <<db, ret, loc>>
    /\ ConcGhosts

\* Get, lines 208-227, and its deferred db.mu.Unlock()
TGetRead(t) ==
    /\ pc[t] = "get_read"
    /\ loc' = [loc EXCEPT ![t].got = Get(db, loc[t].row[1])]
    /\ mu' = NoThread
    /\ pc' = [pc EXCEPT ![t] = "done"]
    /\ UNCHANGED <<db, ret>>
    /\ ConcGhosts

\* a reader calls Get(id) while the creators run
ReaderLock(id) ==
    /\ pc[Reader] = "idle"
    /\ loc[Reader].calls < MaxCalls
    /\ CanLock(Reader)
    /\ mu' = Reader
    /\ pc' = [pc EXCEPT ![Reader] = "get_read"]
    /\ loc' = [loc EXCEPT ![Reader] = [id |-> id, calls |-> @.calls + 1]]
    /\ UNCHANGED <<db, ret>>
    /\ ConcGhosts

ReaderRead ==
    /\ pc[Reader] = "get_read"
    /\ LET res == Get(db, loc[Reader].id) IN
       ret' = [op |-> "Get", arg |-> loc[Reader].id, err |-> res.err,
               out |-> res.rec]
    /\ mu' = NoThread
    /\ pc' = [pc EXCEPT ![Reader] = "idle"]
    /\ UNCHANGED <<db, loc>>
    /\ ConcGhosts

AllDone == \A t \in Threads : pc[t] = "done"

\* after wg.Wait(): Iter, which locks for the whole scan
JoinIter ==
    /\ AllDone
    /\ pc[Reader] = "idle"
    /\ CanLock(Reader)
    /\ LET res == Iter(db) IN
       ret' = [op |-> "Iter", arg |-> <<>>, err |-> res.err, out |-> res.rows]
    /\ UNCHANGED <<db, pc, loc, mu>>
    /\ ConcGhosts

NextConc ==
    \/ \E t \in Threads :
          \/ TCreateLock(t)
          \/ TCreateCheck(t)
          \/ TWrite(t)
          \/ TIndex(t)
          \/ TVersion(t)
          \/ TGetLock(t)
          \/ TGetRead(t)
    \/ \E t \in Threads : ReaderLock(ThreadId(t))
    \/ ReaderRead
    \/ JoinIter

SpecConc == InitConc /\ [][NextConc]_vars

RowOf(id) == (CHOOSE t \in Threads : ThreadId(t) = id)

\* C9: with N threads each creating a distinct identifier and then getting
\* it, every Create and every Get succeeds under every interleaving; after
\* all threads finish, Get of each identifier returns the row inserted for
\* it and Iter yields exactly N rows; a reader sees an identifier either
\* absent or with its complete row.
C9_ConcurrentCreates ==
    /\ \A t \in Threads : loc[t].createErr \in {Unset, NoErr}
    /\ \A t \in Threads :
          loc[t].got.err # Unset
              => loc[t].got = [rec |-> loc[t].row, err |-> NoErr]
    /\ AllDone =>
          /\ \A t \in Threads :
                Get(db, ThreadId(t)) = [rec |-> loc[t].row, err |-> NoErr]
          /\ Iter(db).err = NoErr
          /\ Len(Iter(db).rows) = MaxThreads
    /\ ret.op = "Get" =>
          \/ ret.err = ErrNotFound
          \/ ret.err = NoErr /\ ret.out = loc[RowOf(ret.arg)].row
    /\ ret.op = "Iter" => ret.err = NoErr /\ Len(ret.out) = MaxThreads

\* C9 witness: all threads are done, the rows are in the file in another
\* order than the threads' numbers, a quoted row among them, and the
\* iteration after the join has run
C9_Witness ==
    /\ AllDone
    /\ ret.op = "Iter"
    /\ Len(ret.out) = MaxThreads
    /\ db.index[ThreadId(1)] > db.index[ThreadId(2)]
    /\ \E t \in Threads : loc[t].row[3] = DataQ

----------------------------------------------------------------------------
(* Schema: values are tagged, numbers are integer-valued doubles *)

Nil == [t |-> "nil"]

Num(n) == [t |-> "number", n |-> n]

Txt(x) == [t |-> "text", s |-> x]

Lst(l) == [t |-> "list", l |-> l]

\* res[key] of a Go map: nil when the key is absent
Lookup(res, key) == IF key \in DOMAIN res THEN res[key] ELSE Nil

RECURSIVE StripZeros(_)
StripZeros(ds) ==
    IF Len(ds) > 1 /\ ds[Len(ds)] = "0"
    THEN StripZeros(SubSeq(ds, 1, Len(ds) - 1)) ELSE ds

\* fmt.Sprintf("%g", v) for an integer-valued double: the shortest decimal,
\* in exponent form from 1e+06 on
FormatG(n) ==
    LET ds   == FormatNat(IF n < 0 THEN -n ELSE n)
        exp  == Len(ds) - 1
        m    == StripZeros(ds)
        mant == IF Len(m) = 1 THEN m ELSE <<m[1], ".">> \o Tail(m)
        e2   == IF exp < 10 THEN <<"0">> \o FormatNat(exp) ELSE FormatNat(exp)
    IN  IF exp < 6 THEN FormatInt(n)
        ELSE (IF n < 0 THEN <<"-">> ELSE <<>>) \o mant \o <<"e", "+">> \o e2

\* strconv.ParseFloat(s, 64) on the decimal texts of integers (an optional
\* sign and digits); any other text of the alphabet is a syntax error
ParseFloat(s) == ParseInt(s)

\* regexp.MustCompile(re).MatchString(x) for the patterns of the schema
\* files; "." does not match a line feed and "$" matches at the end of text
RegexMatch(re, x) ==
    LET noLF == \A i \in 1..Len(x) : x[i] # "\n" IN
    CASE re = "^.+$" -> Len(x) >= 1 /\ noLF
      [] re = "^.*$" -> noLF
      [] re = ".+"   -> \E i \in 1..Len(x) : x[i] # "\n"
      [] OTHER       -> TRUE

\* Validate with the bug "a max below min is still an upper bound"
ValidateAlwaysMax(field, v) ==
    IF v.t = "nil" THEN FALSE
    ELSE CASE field.Type = "number" ->
                 /\ v.t = "number"
                 /\ \/ field.Min = 0 /\ field.Max = 0
                    \/ v.n >= field.Min /\ v.n <= field.Max
           [] field.Type = "text" ->
                 /\ v.t = "text"
                 /\ (field.Regex = "" \/ RegexMatch(field.Regex, v.s))
           [] field.Type = "list" -> v.t = "list"
           [] OTHER -> FALSE

\* FieldSchema.Validate
Validate(field, v) ==
    IF v.t = "nil" THEN FALSE
    ELSE CASE field.Type = "number" ->
                 /\ v.t = "number"
                 /\ \/ field.Min = 0 /\ field.Max = 0
                    \/ /\ v.n >= field.Min
                       /\ (field.Max < field.Min \/ v.n <= field.Max)
           [] field.Type = "text" ->
                 /\ v.t = "text"
                 /\ (field.Regex = "" \/ RegexMatch(field.Regex, v.s))
           [] field.Type = "list" -> v.t = "list"
           [] OTHER -> FALSE

ZeroValue(type) ==
    CASE type = "number" -> Num(0)
      [] type = "text"   -> Txt(<<>>)
      [] type = "list"   -> Lst(<<>>)
      [] OTHER           -> Nil

RECURSIVE Join(_)
\* strings.Join(l, ",")
Join(l) ==
    IF l = <<>> THEN <<>>
    ELSE IF Len(l) = 1 THEN l[1]
    ELSE l[1] \o <<",">> \o Join(Tail(l))

RECURSIVE Split(_)
\* strings.Split(x, ",")
Split(x) ==
    LET i == IndexOf(x, ",") IN
    IF i = 0 THEN <<x>>
    ELSE <<SubSeq(x, 1, i - 1)>> \o Split(SubSeq(x, i + 1, Len(x)))

ErrInvalidField(name) == "invalid field " \o name

ErrShortRecord == "record length is less than schema length"

ErrSyntax == "strconv.ParseFloat: invalid syntax"

RECURSIVE recordFromSkipAbsent(_, _, _, _)
\* recordFrom with the bug "an absent field is written empty, unvalidated"
recordFromSkipAbsent(schema, res, i, rec) ==
    IF i > Len(schema) THEN [rec |-> rec, err |-> NoErr]
    ELSE LET field == schema[i]
             given == Lookup(res, field.Field)
         IN  IF given.t = "nil"
             THEN recordFromSkipAbsent(schema, res, i + 1, Append(rec, <<>>))
             ELSE IF ~Validate(field, given)
             THEN [rec |-> <<>>, err |-> ErrInvalidField(field.Field)]
             ELSE recordFromSkipAbsent(schema, res, i + 1,
                     Append(rec, CASE field.Type = "number" -> FormatG(given.n)
                                   [] field.Type = "text"   -> given.s
                                   [] field.Type = "list"   -> Join(given.l)))

RECURSIVE recordFrom(_, _, _, _)
\* the loop of Schema.Record from field i on
recordFrom(schema, res, i, rec) ==
    IF i > Len(schema) THEN [rec |-> rec, err |-> NoErr]
    ELSE LET field == schema[i]
             given == Lookup(res, field.Field)
             v     == IF given.t = "nil" THEN ZeroValue(field.Type) ELSE given
         IN  IF ~Validate(field, v)
             THEN [rec |-> <<>>, err |-> ErrInvalidField(field.Field)]
             ELSE recordFrom(schema, res, i + 1,
                     Append(rec, CASE field.Type = "number" -> FormatG(v.n)
                                   [] field.Type = "text"   -> v.s
                                   [] field.Type = "list"   -> Join(v.l)))

\* Schema.Record
SchemaRecord(schema, res) == recordFrom(schema, res, 1, <<>>)

RECURSIVE resourceFrom(_, _, _, _)
\* the loop of Schema.Resource from field i on
resourceFrom(schema, rec, i, res) ==
    IF i > Len(schema) THEN [res |-> res, err |-> NoErr]
    ELSE IF i > Len(rec) THEN [res |-> EmptyMap, err |-> ErrShortRecord]
    ELSE LET field == schema[i] IN
         CASE field.Type = "number" ->
                  IF ~ParseFloat(rec[i]).ok
                  THEN [res |-> EmptyMap, err |-> ErrSyntax]
                  ELSE resourceFrom(schema, rec, i + 1,
                          Put(res, field.Field, Num(ParseFloat(rec[i]).val)))
           [] field.Type = "text" ->
                  resourceFrom(schema, rec, i + 1,
                               Put(res, field.Field, Txt(rec[i])))
           [] field.Type = "list" ->
                  resourceFrom(schema, rec, i + 1,
                      Put(res, field.Field,
                          IF rec[i] # <<>> THEN Lst(Split(rec[i]))
                          ELSE Lst(<<>>)))
           [] OTHER -> [res |-> EmptyMap, err |-> "unknown field type"]

\* Schema.Resource
SchemaResource(schema, rec) == resourceFrom(schema, rec, 1, EmptyMap)

----------------------------------------------------------------------------
(* Store over one collection, books, found in _schemas at bootstrap *)

Field(name, type, min, max, regex) ==
    [Field |-> name, Type |-> type, Min |-> min, Max |-> max, Regex |-> regex]

BooksSchema ==
    << Field("_id", "text", 0, 0, "^.+$"),
       Field("_v", "number", 1, 0, ""),
       Field("title", "text", 0, 0, ""),
       Field("year", "number", 0, 9, ""),
       Field("genres", "list", 0, 0, "") >>

\* Store.Schemas
Schemas == [books |-> BooksSchema]

\* the keys of Store.Resources
Collections == DOMAIN Schemas

ErrNoResource == "resource not found"

ErrWrapNotFound(err) == "record not found: " \o err

PanicAssert == "panic: interface conversion"

\* Store.Get, line 359: what Schema.Resource returned, p
StoreGetParsed(p) == [res |-> p.res, err |-> p.err, nil |-> p.err # NoErr]

\* Store.Get, lines 353-359: after db.Get returned g
StoreGetRow(g, coll) ==
    IF g.err # NoErr THEN [res |-> EmptyMap, err |-> g.err, nil |-> TRUE]
    ELSE IF Len(g.rec) < 2
    THEN [res |-> EmptyMap, err |-> NoErr, nil |-> TRUE]
    ELSE StoreGetParsed(SchemaResource(Schemas[coll], g.rec))

\* Store.Get on the Row Log d of collection coll
StoreGet(d, coll, id) ==
    IF coll \notin Collections THEN [res |-> EmptyMap, err |-> ErrNoResource,
                                     nil |-> TRUE]
    ELSE StoreGetRow(Get(d, id), coll)

\* Store.Create with ID() returning newID
StoreCreate(d, coll, r, newID) ==
    IF coll \notin Collections THEN [db |-> d, id |-> <<>>, err |-> ErrNoResource]
    ELSE LET stamped == Put(Put(r, "_id", Txt(newID)), "_v", Num(1))
             p       == SchemaRecord(Schemas[coll], stamped)
         IN  IF p.err # NoErr THEN [db |-> d, id |-> <<>>, err |-> p.err]
             ELSE [db |-> Create(d, p.rec).db, id |-> newID,
                   err |-> Create(d, p.rec).err]

\* Store.Update, lines 326-331: the fields the caller left out are copied
\* from the resource read, and _v is the version read plus one
StoreMerge(schema, r, orig) ==
    LET filled == [k \in (DOMAIN r) \cup {schema[i].Field : i \in 1..Len(schema)}
                      |-> IF k \in DOMAIN r THEN r[k] ELSE Lookup(orig, k)]
    IN  Put(filled, "_v", Num(Lookup(orig, "_v").n + 1))

\* Store.Update, lines 332-335: what Schema.Record returned, p
StoreUpdateRecord(p, orig) == [rec |-> p.rec, err |-> p.err, orig |-> orig]

\* Store.Update, lines 323-335: after Store.Get returned g
StoreUpdateOrig(g, coll, r) ==
    IF g.err # NoErr
    THEN [rec |-> <<>>, err |-> ErrWrapNotFound(g.err), orig |-> EmptyMap]
    ELSE IF Lookup(g.res, "_v").t # "number"
    THEN [rec |-> <<>>, err |-> PanicAssert, orig |-> EmptyMap]
    ELSE StoreUpdateRecord(
             SchemaRecord(Schemas[coll], StoreMerge(Schemas[coll], r, g.res)),
             g.res)

\* Store.Update, lines 318-335: up to the record handed to db.Update
StoreUpdateRead(d, coll, r) ==
    IF coll \notin Collections THEN [rec |-> <<>>, err |-> ErrNoResource,
                                     orig |-> EmptyMap]
    ELSE IF Lookup(r, "_id").t # "text"
    THEN [rec |-> <<>>, err |-> PanicAssert, orig |-> EmptyMap]
    ELSE StoreUpdateOrig(StoreGet(d, coll, r["_id"].s), coll, r)

\* Store.Update, line 336
StoreUpdateAppend(d, rec) == Update(d, rec)

\* Store.Delete
StoreDelete(d, coll, id) ==
    IF coll \notin Collections THEN [db |-> d, err |-> ErrNoResource]
    ELSE Delete(d, id)

\* the byte of a character of the alphabet
Byte(c) ==
    CASE c = "\n" -> 10 [] c = "\"" -> 34 [] c = "," -> 44 [] c = "-" -> 45
      [] c = "0" -> 48 [] c = "1" -> 49 [] c = "2" -> 50 [] c = "3" -> 51
      [] c = "4" -> 52 [] c = "5" -> 53 [] c = "6" -> 54 [] c = "7" -> 55
      [] c = "8" -> 56 [] c = "9" -> 57 [] c = "a" -> 97 [] c = "b" -> 98
      [] c = "x" -> 120 [] c = "y" -> 121 [] OTHER -> 63

RECURSIVE StringLess(_, _)
\* x < y on Go strings: byte by byte, a proper prefix first
StringLess(x, y) ==
    IF y = <<>> THEN FALSE
    ELSE IF x = <<>> THEN TRUE
    ELSE IF Byte(x[1]) # Byte(y[1]) THEN Byte(x[1]) < Byte(y[1])
    ELSE StringLess(Tail(x), Tail(y))

\* the less function of Store.List, lines 382-396, on the key values a, b
lessValues(a, b) ==
    IF a.t = "nil" THEN FALSE
    ELSE IF b.t = "nil" THEN TRUE
    ELSE CASE a.t = "text"   -> StringLess(a.s, b.s)
           [] a.t = "number" -> a.n < b.n
           [] OTHER          -> FALSE

less(x, y, sortBy) == lessValues(Lookup(x, sortBy), Lookup(y, sortBy))

Swap(l, i, j) == [l EXCEPT ![i] = l[j], ![j] = l[i]]

RECURSIVE sift(_, _, _)
\* the inner loop of the insertion sort that sort.Slice runs on a slice of
\* at most 12 elements: data[j] moves down while it is less than data[j-1]
sift(l, j, sortBy) ==
    IF j > 1 /\ less(l[j], l[j - 1], sortBy)
    THEN sift(Swap(l, j, j - 1), j - 1, sortBy) ELSE l

RECURSIVE insertionSort(_, _, _)
\* sort.Slice(res, less) from position i on
insertionSort(l, i, sortBy) ==
    IF i > Len(l) THEN l ELSE insertionSort(sift(l, i, sortBy), i + 1, sortBy)

RECURSIVE listFromSkipBad(_, _, _, _)
\* listFrom with the bug "a row that does not parse is left out"
listFromSkipBad(schema, rows, i, res) ==
    IF i > Len(rows) THEN [res |-> res, err |-> NoErr]
    ELSE IF Len(rows[i]) < 2 \/ SchemaResource(schema, rows[i]).err # NoErr
    THEN listFromSkipBad(schema, rows, i + 1, res)
    ELSE listFromSkipBad(schema, rows, i + 1,
                         Append(res, SchemaResource(schema, rows[i]).res))

RECURSIVE listFrom(_, _, _, _)
\* the loop of Store.List, lines 368-380, over the rows Iter yields
listFrom(schema, rows, i, res) ==
    IF i > Len(rows) THEN [res |-> res, err |-> NoErr]
    ELSE IF Len(rows[i]) < 2 THEN listFrom(schema, rows, i + 1, res)
    ELSE IF SchemaResource(schema, rows[i]).err # NoErr
    THEN [res |-> res, err |-> SchemaResource(schema, rows[i]).err]
    ELSE listFrom(schema, rows, i + 1,
                  Append(res, SchemaResource(schema, rows[i]).res))

\* Store.List, lines 381-399: the resources p.res, sorted when sortBy is set
StoreListSort(p, it, sortBy) ==
    IF p.err # NoErr THEN p
    ELSE IF it.err # NoErr THEN [res |-> <<>>, err |-> it.err]
    ELSE IF sortBy = "" THEN p
    ELSE [res |-> insertionSort(p.res, 2, sortBy), err |-> NoErr]

\* Store.List, lines 368-399, on what Iter yielded
StoreListRows(it, coll, sortBy) ==
    StoreListSort(listFrom(Schemas[coll], it.rows, 1, <<>>), it, sortBy)

\* Store.List
StoreList(d, coll, sortBy) ==
    IF coll \notin Collections THEN [res |-> <<>>, err |-> ErrNoResource]
    ELSE StoreListRows(Iter(d), coll, sortBy)

----------------------------------------------------------------------------
(* Two callers of the Store.  Every Row Log operation holds db.mu from its  *)
(* first statement to its return, so each is one step; Store.Update is two  *)
(* of them, Store.Get and db.Update, and the callers interleave between.    *)

Writers == {1, 2}

Idle == [op |-> "none", coll |-> "books", id |-> <<>>, arg |-> EmptyMap,
         rec |-> <<>>, readV |-> 0, issuedAt |-> 0, conc |-> {},
         err |-> Unset, calls |-> 0]

\* the resources a caller passes to Store.Update
UpdateArgs ==
    {[_id |-> Txt(IdA), title |-> Txt(d)] : d \in Data}
    \cup {[_id |-> Txt(IdB), title |-> Txt(DataX)],
          [_id |-> Txt(IdA), year |-> Num(7)]}

\* the collections a caller names, and what it passes along with each
Named == {<<"books", id, r>> : id \in Ids, r \in UpdateArgs}
         \cup {<<"unknown", IdA, [_id |-> Txt(IdA), title |-> Txt(DataX)]>>}

InitStore ==
    /\ db = EmptyDB
    /\ pre = EmptyDB
    /\ ret = [op |-> "NewStore", arg |-> <<>>, err |-> NoErr, out |-> <<>>]
    /\ track = [i \in AllIds |-> NoTrack]
    /\ nrows = 0
    /\ pc = [t \in Writers |-> "idle"]
    /\ loc = [t \in Writers |-> Idle]
    /\ mu = NoThread

InFlight == {t \in Writers : pc[t] # "idle"}

\* a caller may start a call that can append a row
MayCall(t) ==
    /\ pc[t] = "idle"
    /\ loc[t].calls < MaxCalls
    /\ nrows + Cardinality(InFlight) < MaxRows

StoreGhosts == UNCHANGED <<pre, ret, track, mu>>

\* Store.Create("books", {title}), with ID() returning id
SCreate(t, id, title) ==
    /\ MayCall(t)
    /\ LET res == StoreCreate(db, "books", [title |-> Txt(title)], id) IN
       /\ db' = res.db
       /\ nrows' = Grown(res)
       /\ loc' = [loc EXCEPT ![t] =
                     [Idle EXCEPT !.op = "Create", !.id = id,
                                  !.issuedAt = verOf(db, id),
                                  !.err = res.err, !.calls = loc[t].calls + 1]]
    /\ UNCHANGED pc
    /\ StoreGhosts

\* Store.Delete(coll, id)
SDelete(t, coll, id) ==
    /\ MayCall(t)
    /\ LET res == StoreDelete(db, coll, id) IN
       /\ db' = res.db
       /\ nrows' = Grown(res)
       /\ loc' = [loc EXCEPT ![t] =
                     [Idle EXCEPT !.op = "Delete", !.coll = coll, !.id = id,
                                  !.issuedAt = verOf(db, id),
                                  !.err = res.err, !.calls = loc[t].calls + 1]]
    /\ UNCHANGED pc
    /\ StoreGhosts

\* the caller enters Store.Update(coll, r)
SUpdateCall(t, coll, r) ==
    /\ MayCall(t)
    /\ pc' = [pc EXCEPT ![t] = "upd_get"]
    /\ loc' = [loc EXCEPT ![t] =
                  [Idle EXCEPT !.op = "Update", !.coll = coll,
                               !.id = r["_id"].s, !.arg = r,
                               !.issuedAt = verOf(db, r["_id"].s),
                               !.conc = {<<u, loc[u].calls>> :
                                            u \in {w \in InFlight :
                                                     /\ loc[w].coll = coll
                                                     /\ loc[w].id = r["_id"].s}},
                               !.calls = loc[t].calls + 1]]
    /\ UNCHANGED <<db, nrows>>
    /\ StoreGhosts

\* Store.Update returns the error p.err, or goes on to db.Update with p.rec
SUpdateRead(t, p) ==
    IF p.err # NoErr
    THEN /\ loc' = [loc EXCEPT ![t].err = p.err]
         /\ pc' = [pc EXCEPT ![t] = "idle"]
    ELSE /\ loc' = [loc EXCEPT ![t].rec = p.rec,
                               ![t].readV = p.orig["_v"].n]
         /\ pc' = [pc EXCEPT ![t] = "upd_write"]

\* Store.Update, lines 318-335
SUpdateGet(t) ==
    /\ pc[t] = "upd_get"
    /\ SUpdateRead(t, StoreUpdateRead(db, loc[t].coll, loc[t].arg))
    /\ UNCHANGED <<db, nrows>>
    /\ StoreGhosts

\* Store.Update, line 336
SUpdateWrite(t) ==
    /\ pc[t] = "upd_write"
    /\ LET res == StoreUpdateAppend(db, loc[t].rec) IN
       /\ db' = res.db
       /\ nrows' = Grown(res)
       /\ loc' = [loc EXCEPT ![t].err = res.err]
    /\ pc' = [pc EXCEPT ![t] = "idle"]
    /\ StoreGhosts

NextStore ==
    \E t \in Writers :
        \/ \E id \in Ids, title \in Data : SCreate(t, id, title)
        \/ \E n \in Named : SDelete(t, n[1], n[2])
        \/ \E n \in Named : SUpdateCall(t, n[1], n[3])
        \/ SUpdateGet(t)
        \/ SUpdateWrite(t)

SpecStore == InitStore /\ [][NextStore]_vars

\* t and u have each returned from a Store.Update of the same row; both
\* calls were entered while the row was at version 1, and t's was entered
\* while u's was running
BothUpdatedAtV1(t, u) ==
    /\ t # u
    /\ pc[t] = "idle" /\ pc[u] = "idle"
    /\ loc[t].op = "Update" /\ loc[u].op = "Update"
    /\ loc[t].coll = "books" /\ loc[u].coll = "books"
    /\ loc[t].id = loc[u].id
    /\ loc[t].issuedAt = 1 /\ loc[u].issuedAt = 1
    /\ <<u, loc[u].calls>> \in loc[t].conc

ExactlyOneWins(t, u) ==
    /\ \/ loc[t].err = NoErr /\ loc[u].err = ErrInvalidVersion
       \/ loc[u].err = NoErr /\ loc[t].err = ErrInvalidVersion
    /\ verOf(db, loc[t].id) = 2

\* C10 as stated: two concurrent Store.Update calls issued at version 1:
\* under every interleaving exactly one succeeds, the other fails with the
\* invalid-version error, and the row ends at version 2.
C10_ExactlyOneUpdateWins ==
    \A t, u \in Writers : BothUpdatedAtV1(t, u) => ExactlyOneWins(t, u)

\* C10 amended: if both calls read the row (Store.Get) at version 1, i.e.
\* before either appended, exactly one succeeds, the other fails with the
\* invalid-version error and the row ends at version 2; otherwise the later
\* call read version 2, both succeed and the row ends at version 3.
C10_OneWinsIffBothReadV1 ==
    \A t, u \in Writers :
        BothUpdatedAtV1(t, u) =>
            IF loc[t].readV = 1 /\ loc[u].readV = 1
            THEN ExactlyOneWins(t, u)
            ELSE /\ loc[t].err = NoErr /\ loc[u].err = NoErr
                 /\ {loc[t].readV, loc[u].readV} = {1, 2}
                 /\ verOf(db, loc[t].id) = 3

\* C10 witness: both calls read version 1, one was rejected, and the row
\* holds the winner's title at version 2
C10_Witness ==
    \E t, u \in Writers :
        /\ BothUpdatedAtV1(t, u)
        /\ loc[t].readV = 1 /\ loc[u].readV = 1
        /\ loc[t].err = NoErr
        /\ loc[u].err = ErrInvalidVersion
        /\ loc[t].arg # loc[u].arg
        /\ Put(loc[t].arg, "_v", Num(2)) =
              [k \in {"_id", "_v", "title"} |->
                  StoreGet(db, "books", loc[t].id).res[k]]

----------------------------------------------------------------------------
(* The Row Log across a crash: the process stops after any byte prefix of   *)
(* the row being appended reached the file, and NewCSVDB runs on the file.  *)

\* what Get returns for each identifier
GetAll(d) == [id \in Ids |-> Get(d, id)]

\* the rows whose append Create, Update or Delete would start on d
Accepted(d) ==
    {r \in FullRows : CreateCheck(d, r) = NoErr \/ UpdateCheck(d, r) = NoErr}
    \cup {<<id, <<"0">> >> : id \in {i \in Ids : DeleteCheck(d, i) = NoErr}}

NoCrash == [crashed |-> FALSE, before |-> GetAll(EmptyDB),
            after |-> GetAll(EmptyDB), row |-> <<>>, k |-> 0]

InitCrash ==
    /\ db = EmptyDB
    /\ pre = EmptyDB
    /\ ret = [op |-> "NewCSVDB", arg |-> <<>>, err |-> NoErr, out |-> <<>>]
    /\ track = [i \in AllIds |-> NoTrack]
    /\ nrows = 0
    /\ pc = "up"
    /\ loc = NoCrash
    /\ mu = NoThread

\* a Create, Update or Delete whose append completes
CrAppend(r) ==
    /\ pc = "up"
    /\ nrows < MaxRows
    /\ r \in Accepted(db)
    /\ db' = append(db, r).db
    /\ pre' = db
    /\ ret' = [op |-> "append", arg |-> r, err |-> append(db, r).err,
               out |-> <<>>]
    /\ nrows' = nrows + 1
    /\ UNCHANGED <<track, pc, loc, mu>>

\* append, line 168-172: the process stops when k bytes of the row are in
\* the file; what it held in memory is gone
CrTorn(r, k) ==
    /\ pc = "up"
    /\ nrows < MaxRows
    /\ r \in Accepted(db)
    /\ db' = [EmptyDB EXCEPT !.file = db.file \o SubSeq(csvWrite(r), 1, k)]
    /\ pre' = db
    /\ ret' = [op |-> "crash", arg |-> r, err |-> NoErr, out |-> <<>>]
    /\ loc' = [crashed |-> TRUE, before |-> GetAll(db),
               after |-> GetAll(append(db, r).db), row |-> r, k |-> k]
    /\ pc' = "down"
    /\ nrows' = nrows + 1
    /\ UNCHANGED <<track, mu>>

\* what NewCSVDB left: the handle res.db, or no handle
CrOpened(res) ==
    /\ db' = IF res.err = NoErr THEN res.db ELSE db
    /\ ret' = [op |-> "restart", arg |-> <<>>, err |-> res.err, out |-> <<>>]
    /\ pc' = IF res.err = NoErr THEN "up" ELSE "failed"

\* the restart: NewCSVDB on the file the crash left
CrRestart ==
    /\ pc = "down"
    /\ CrOpened(NewCSVDB(db.file))
    /\ pre' = db
    /\ UNCHANGED <<track, nrows, loc, mu>>

NextCrash ==
    \/ \E r \in FullRows \cup {<<id, <<"0">> >> : id \in Ids} : CrAppend(r)
    \/ \E r \in FullRows \cup {<<id, <<"0">> >> : id \in Ids} :
          \E k \in 0..Len(csvWrite(r)) : CrTorn(r, k)
    \/ CrRestart

SpecCrash == InitCrash /\ [][NextCrash]_vars

\* what Get returns for the identifier of row r once r is appended whole
Appended(r) ==
    IF r[2] = <<"0">> THEN [rec |-> <<>>, err |-> ErrNotFound]
    ELSE [rec |-> r, err |-> NoErr]

\* C11: after a crash that left any byte prefix of the row being appended,
\* the restart opens the Row Log without error or panic; for every
\* identifier Get then returns what it returned before the interrupted
\* append or what it returns once the row is appended whole; and a row
\* appended after the restart is read back intact.
C11_CrashResilient ==
    /\ ret.op = "restart" =>
          /\ ret.err = NoErr
          /\ \A id \in Ids : Get(db, id) \in {loc.before[id], loc.after[id]}
    /\ (ret.op = "append" /\ loc.crashed) =>
          Get(db, ret.arg[1]) = Appended(ret.arg)

----------------------------------------------------------------------------
(* Schema on its own: Validate, Record and Resource applied to the values,  *)
(* schemas and resources of a bounded universe.                             *)

MaxAbs == 2

\* the values a resource can hold under one key
NumValues == {Num(n) : n \in (0 - MaxAbs - 1)..(MaxAbs + 1)}

TextValues == {Txt(<<>>), Txt(DataX), Txt(DataQ)}

ListValues == {Lst(<<>>), Lst(<<DataX>>), Lst(<<DataX, IdA>>),
               Lst(<<DataQ>>), Lst(<< <<>> >>)}

Values == NumValues \cup TextValues \cup ListValues \cup {Nil}

\* the number fields of every range within the bound, and the other types
NumberFields ==
    {Field("age", "number", lo, hi, "") :
        lo \in (0 - MaxAbs)..MaxAbs, hi \in (0 - MaxAbs)..MaxAbs}

OtherFields == {Field("name", "text", 0, 0, "^.+$"),
                Field("note", "text", 0, 0, ""),
                Field("tags", "list", 0, 0, "")}

\* schemas: empty, all types, zero values rejected, a list first
SchemaPool ==
    { <<>>,
      << Field("name", "text", 0, 0, ""), Field("age", "number", 0, 2, ""),
         Field("tags", "list", 0, 0, "") >>,
      << Field("age", "number", 1, 0, ""), Field("name", "text", 0, 0, "^.+$") >>,
      << Field("tags", "list", 0, 0, ""), Field("name", "text", 0, 0, "^.+$"),
         Field("age", "number", 0, 0, "") >> }

\* resources: any subset of the keys, each with a value of any type
ResourceValues ==
    [name : {Txt(<<>>), Txt(DataX), Txt(DataQ), Num(1), Nil},
     age  : {Num(0), Num(1), Num(3), Txt(DataX), Nil},
     tags : {Lst(<<>>), Lst(<<DataX>>), Lst(<<DataX, IdA>>), Lst(<<DataQ>>),
             Lst(<< <<>> >>), Txt(DataX)}]

Restrict(f, S) == [k \in S |-> f[k]]

SchemaResources ==
    {Restrict(f, S) : f \in ResourceValues, S \in SUBSET {"name", "age", "tags"}}
    \cup {[extra |-> Txt(DataX)]}

\* what is handed to Validate, and what to Record
ValidateInputs ==
    [kind : {"validate"}, field : NumberFields \cup OtherFields, v : Values]

RecordInputs == [kind : {"record"}, schema : SchemaPool, res : SchemaResources]

InitSchema ==
    /\ db = EmptyDB
    /\ pre = EmptyDB
    /\ ret = [op |-> "none", arg |-> <<>>, err |-> NoErr, out |-> <<>>]
    /\ track = [i \in AllIds |-> NoTrack]
    /\ nrows = 0
    /\ pc = "new"
    /\ loc \in ValidateInputs \cup RecordInputs
    /\ mu = NoThread

SchemaGhosts == UNCHANGED <<db, pre, track, nrows, loc, mu>>

\* loc.field.Validate(loc.v)
DoValidate ==
    /\ pc = "new"
    /\ loc.kind = "validate"
    /\ ret' = [op |-> "Validate", arg |-> loc.v,
               err |-> NoErr, out |-> Validate(loc.field, loc.v)]
    /\ pc' = "validated"
    /\ SchemaGhosts

\* loc.schema.Record(loc.res)
DoRecord ==
    /\ pc = "new"
    /\ loc.kind = "record"
    /\ ret' = [op |-> "Record", arg |-> loc.res,
               err |-> SchemaRecord(loc.schema, loc.res).err,
               out |-> SchemaRecord(loc.schema, loc.res).rec]
    /\ pc' = "recorded"
    /\ SchemaGhosts

\* loc.schema.Resource(rec) of the row Record returned
DoResource ==
    /\ pc = "recorded"
    /\ ret.err = NoErr
    /\ ret' = [op |-> "Resource", arg |-> ret.out,
               err |-> SchemaResource(loc.schema, ret.out).err,
               out |-> SchemaResource(loc.schema, ret.out).res]
    /\ pc' = "parsed"
    /\ SchemaGhosts

NextSchema ==
    \/ DoValidate
    \/ DoRecord
    \/ DoResource

SpecSchema == InitSchema /\ [][NextSchema]_vars

\* the lower and the upper limit of a number field: empty where unbounded
LowerLimit(field) ==
    IF field.Min = 0 /\ field.Max = 0 THEN {} ELSE {field.Min}

UpperLimit(field) ==
    IF field.Min = 0 /\ field.Max = 0 THEN {}
    ELSE IF field.Max < field.Min THEN {} ELSE {field.Max}

\* C15: a number field accepts a value iff the value is a number that is not
\* below the lower limit and not above the upper limit of the range rule
\* (no limits when min and max are both zero; no upper limit when max is
\* below min); a text, a list and a null value are rejected.
C15_NumberRangeRule ==
    (ret.op = "Validate" /\ loc.field.Type = "number") =>
        (ret.out <=>
            /\ loc.v.t = "number"
            /\ \A m \in LowerLimit(loc.field) : loc.v.n >= m
            /\ \A m \in UpperLimit(loc.field) : loc.v.n <= m)

\* C15 witness: a value at least min is accepted by a field whose max is
\* below its min, and rejected values of every kind were seen
C15_Witness ==
    /\ ret.op = "Validate"
    /\ loc.field.Type = "number"
    /\ loc.field.Max < loc.field.Min
    /\ loc.v.t = "number"
    /\ loc.v.n > loc.field.Min
    /\ ret.out

\* C16: whenever Schema.Record accepts a resource r, Schema.Resource of the
\* row it returned succeeds and returns r: the same keys, each with an equal
\* number, an equal text, or a list equal element by element.
C16_SchemaRoundTrip ==
    ret.op = "Resource" => (ret.err = NoErr /\ ret.out = loc.res)

\* the value Record works with under the key of field: the value given, or
\* 0, the empty text or the empty list where none or null was given
Supplied(field, res) ==
    IF field.Field \in DOMAIN res /\ res[field.Field].t # "nil"
    THEN res[field.Field]
    ELSE CASE field.Type = "number" -> Num(0)
           [] field.Type = "text"   -> Txt(<<>>)
           [] field.Type = "list"   -> Lst(<<>>)

\* the resource with every absent or null schema field given its zero value
Completed(schema, res) ==
    [k \in {schema[i].Field : i \in 1..Len(schema)} |->
        Supplied(schema[CHOOSE i \in 1..Len(schema) : schema[i].Field = k], res)]

\* the positions of the fields whose value fails validation
Failing(schema, res) ==
    {i \in 1..Len(schema) : ~Validate(schema[i], Supplied(schema[i], res))}

Least(S) == CHOOSE m \in S : \A n \in S : m <= n

\* C17: Schema.Record fails with the invalid-field error naming the first
\* field, in declaration order, whose value (the zero value of its type when
\* the field is absent or null) fails validation; when no field fails it
\* returns a row with one cell per schema field; and either way it returns
\* what it returns for the resource with the zero values supplied.
C17_RecordFirstInvalidField ==
    ret.op = "Record" =>
        /\ IF Failing(loc.schema, loc.res) = {}
           THEN ret.err = NoErr /\ Len(ret.out) = Len(loc.schema)
           ELSE ret.err = ErrInvalidField(
                    loc.schema[Least(Failing(loc.schema, loc.res))].Field)
        /\ SchemaRecord(loc.schema, Completed(loc.schema, loc.res)) =
              [rec |-> ret.out, err |-> ret.err]

\* C17 witness: two fields fail, both absent, and the error names the one
\* declared first
C17_Witness ==
    /\ ret.op = "Record"
    /\ Cardinality(Failing(loc.schema, loc.res)) = 2
    /\ DOMAIN loc.res = {"tags"}
    /\ ret.err = ErrInvalidField("age")

----------------------------------------------------------------------------
(* The Store used by one caller at a time, on the collection books *)

\* the resources a caller passes to Store.Create: partial, complete, with a
\* list whose element holds a comma, carrying _id and _v, and invalid ones
CreateArgs ==
    { [title |-> Txt(DataX)],
      [title |-> Txt(DataQ), year |-> Num(2)],
      [title |-> Txt(IdB), genres |-> Lst(<<DataX, IdA>>)],
      [year |-> Num(1), genres |-> Lst(<<DataQ>>)],
      [_id |-> Txt(IdB), _v |-> Num(5), title |-> Txt(DataX)],
      [year |-> Num(10)],
      [title |-> Num(1)] }

\* the resources a caller passes to Store.Update
CrudUpdateArgs ==
    { [_id |-> Txt(IdA), title |-> Txt(DataQ)],
      [_id |-> Txt(IdA), year |-> Num(2)],
      [_id |-> Txt(IdB), _v |-> Num(7), genres |-> Lst(<<DataX>>)],
      [_id |-> Txt(IdA), genres |-> Lst(<<DataQ>>)],
      [_id |-> Txt(IdA), year |-> Num(10)],
      [title |-> Txt(DataX)] }

SortKeys == {"", "title", "year", "genres", "_id", "nokey"}

InitCrud ==
    /\ db = EmptyDB
    /\ pre = EmptyDB
    /\ ret = [op |-> "NewStore", arg |-> <<>>, err |-> NoErr, out |-> <<>>]
    /\ track = [i \in AllIds |-> NoTrack]
    /\ nrows = 0
    /\ pc = "ready"
    /\ loc = <<>>
    /\ mu = NoThread

CrudGhosts == UNCHANGED <<track, pc, mu>>

\* what Store.Create returned, res, with ID() having returned newID
CrudCreated(res, r, newID) ==
    /\ db' = res.db
    /\ nrows' = Grown(res)
    /\ ret' = [op |-> "Create", arg |-> r, err |-> res.err, out |-> res.id]
    /\ loc' = newID

\* Store.Create("books", r)
CrudCreate(r, newID) ==
    /\ nrows < MaxRows
    /\ CrudCreated(StoreCreate(db, "books", r, newID), r, newID)
    /\ pre' = db
    /\ CrudGhosts

\* what Store.Update did: it returned p.err, or went on to db.Update(p.rec)
CrudUpdated(p, r) ==
    IF p.err # NoErr
    THEN /\ ret' = [op |-> "Update", arg |-> r, err |-> p.err, out |-> <<>>]
         /\ UNCHANGED <<db, nrows>>
    ELSE /\ ret' = [op |-> "Update", arg |-> r,
                    err |-> StoreUpdateAppend(db, p.rec).err, out |-> <<>>]
         /\ db' = StoreUpdateAppend(db, p.rec).db
         /\ nrows' = Grown(StoreUpdateAppend(db, p.rec))

\* Store.Update("books", r)
CrudUpdate(r) ==
    /\ nrows < MaxRows
    /\ CrudUpdated(StoreUpdateRead(db, "books", r), r)
    /\ pre' = db
    /\ UNCHANGED loc
    /\ CrudGhosts

\* what Store.Delete returned
CrudDeleted(res, id) ==
    /\ db' = res.db
    /\ nrows' = Grown(res)
    /\ ret' = [op |-> "Delete", arg |-> id, err |-> res.err, out |-> <<>>]

\* Store.Delete("books", id)
CrudDelete(id) ==
    /\ nrows < MaxRows
    /\ CrudDeleted(StoreDelete(db, "books", id), id)
    /\ pre' = db
    /\ UNCHANGED loc
    /\ CrudGhosts

\* what Store.List returned
CrudListed(res, sortBy) ==
    ret' = [op |-> "List", arg |-> sortBy, err |-> res.err, out |-> res.res]

\* Store.List("books", sortBy)
CrudList(sortBy) ==
    /\ CrudListed(StoreList(db, "books", sortBy), sortBy)
    /\ pre' = db
    /\ UNCHANGED <<db, nrows, loc>>
    /\ CrudGhosts

NextCrud ==
    \/ \E r \in CreateArgs, newID \in Ids : CrudCreate(r, newID)
    \/ \E r \in CrudUpdateArgs : CrudUpdate(r)
    \/ \E id \in Ids : CrudDelete(id)
    \/ \E sortBy \in SortKeys : CrudList(sortBy)

SpecCrud == InitCrud /\ [][NextCrud]_vars

\* the fields of books a caller sets
DataFields == {"title", "year", "genres"}

\* the file of d is the file of before with exactly one more row
OneRowAppended(before, d) ==
    /\ Len(d.file) > Len(before.file)
    /\ SubSeq(d.file, 1, Len(before.file)) = before.file
    /\ csvRead(d.file, Len(before.file)).err = NoErr
    /\ csvRead(d.file, Len(before.file)).next = Len(d.file)

\* C12: Store.Create on books, ID() returning an identifier that has no row,
\* with a resource that is schema-valid once _id and _v are stamped, returns
\* that identifier without error and appends exactly one row, and Store.Get
\* of it then returns _id as stamped, _v = 1 and every supplied field with
\* the supplied value, whatever _id and _v the caller passed; with a
\* resource that fails validation it returns an error and appends nothing.
C12_CreateStampsIdAndVersion ==
    (ret.op = "Create" /\ verOf(pre, loc) = 0) =>
        IF SchemaRecord(BooksSchema,
               Put(Put(ret.arg, "_id", Txt(loc)), "_v", Num(1))).err = NoErr
        THEN /\ ret.err = NoErr
             /\ ret.out = loc
             /\ OneRowAppended(pre, db)
             /\ StoreGet(db, "books", loc).err = NoErr
             /\ StoreGet(db, "books", loc).res["_id"] = Txt(loc)
             /\ StoreGet(db, "books", loc).res["_v"] = Num(1)
             /\ \A k \in DataFields \cap DOMAIN ret.arg :
                   StoreGet(db, "books", loc).res[k] = ret.arg[k]
        ELSE ret.err # NoErr /\ db = pre

\* C13: after a successful Store.Update, Store.Get of the identifier returns
\* every field present in the input with the input's value, every field
\* absent from it with the value Store.Get returned before the call, and
\* _v one above the version before the call, whatever _v the input carried.
C13_UpdateIsPartial ==
    (ret.op = "Update" /\ ret.err = NoErr) =>
        /\ StoreGet(db, "books", ret.arg["_id"].s).err = NoErr
        /\ \A k \in DataFields \cup {"_id"} :
              StoreGet(db, "books", ret.arg["_id"].s).res[k] =
                 IF k \in DOMAIN ret.arg THEN ret.arg[k]
                 ELSE StoreGet(pre, "books", ret.arg["_id"].s).res[k]
        /\ StoreGet(db, "books", ret.arg["_id"].s).res["_v"].n =
              StoreGet(pre, "books", ret.arg["_id"].s).res["_v"].n + 1

\* C14: Store.List with a sort key returns every live resource exactly once
\* and nothing else, no resource before one whose key is smaller (numbers
\* by value, texts byte by byte, a null key last), and resources of equal
\* key in the order of their rows in the file.
C14_ListSortedStableComplete ==
    (ret.op = "List" /\ ret.arg # "" /\ ret.err = NoErr) =>
        /\ \A id \in Ids :
              Cardinality({i \in 1..Len(ret.out) : ret.out[i]["_id"] = Txt(id)})
                 = IF Get(db, id).err = NoErr THEN 1 ELSE 0
        /\ \A i \in 1..Len(ret.out) :
              ret.out[i] = StoreGet(db, "books", ret.out[i]["_id"].s).res
        /\ \A i, j \in 1..Len(ret.out) :
              i < j =>
                 /\ ~less(ret.out[j], ret.out[i], ret.arg)
                 /\ ~less(ret.out[i], ret.out[j], ret.arg) =>
                       db.index[ret.out[i]["_id"].s] < db.index[ret.out[j]["_id"].s]

----------------------------------------------------------------------------
(* Store.Authorize.  The Store holds two collections, _permissions and      *)
(* books; books has the fields _id, _v and owner, and one row.  A caller    *)
(* adds rules to _permissions and asks for authorization.                   *)

MaxRules == 2

Books == <<"b", "o", "o", "k", "s">>

Notes == <<"n", "o", "t", "e", "s">>

Owner == <<"o", "w", "n", "e", "r">>

ActRead == <<"r", "e", "a", "d">>

ActUpdate == <<"u", "p", "d", "a", "t", "e">>

Star == <<"*">>

Admin == <<"a", "d", "m", "i", "n">>

Editor == <<"e", "d", "i", "t", "o", "r">>

\* the role cell of the rules p3 and p4 of the README
AdminEditor == Admin \o <<",">> \o Editor

Bob == <<"b", "o", "b">>

Al == <<"a", "l">>

\* the bytes of a map key: the keys of Store.Schemas, of Store.Resources
\* and of a Resource are written as strings, the cells of a row as bytes
Bytes(k) ==
    CASE k = "books" -> Books
      [] k = "owner" -> Owner
      [] k = ""      -> <<>>
      [] OTHER       -> <<"?">>

\* the map key a string of bytes is
Key(x) ==
    IF \E k \in {"books", "owner", ""} : Bytes(k) = x
    THEN CHOOSE k \in {"books", "owner", ""} : Bytes(k) = x
    ELSE "?"

\* the rows s1..s6 of _schemas.csv
PermissionsSchema ==
    << Field("_id", "text", 0, 0, "^.+$"),
       Field("_v", "number", 1, 0, ""),
       Field("resource", "text", 0, 0, "^.+$"),
       Field("action", "text", 0, 0, "^.+$"),
       Field("field", "text", 0, 0, "^.*$"),
       Field("role", "text", 0, 0, "^.*$") >>

\* books with an owner field of the given type
OwnedSchema(type) ==
    << Field("_id", "text", 0, 0, "^.+$"),
       Field("_v", "number", 1, 0, ""),
       Field("owner", type, 0, 0, "") >>

ErrUnauthenticated == "unauthenticated"

ErrUnauthorized == "unauthorized"

ErrPermissions(err) == "permissions error: " \o err

\* Store.Create on the Store s with ID() returning newID
AuthCreate(s, coll, r, newID) ==
    IF coll \notin DOMAIN s.Resources THEN [s |-> s, err |-> ErrNoResource]
    ELSE IF SchemaRecord(s.Schemas[coll],
                Put(Put(r, "_id", Txt(newID)), "_v", Num(1))).err # NoErr
    THEN [s |-> s,
          err |-> SchemaRecord(s.Schemas[coll],
                     Put(Put(r, "_id", Txt(newID)), "_v", Num(1))).err]
    ELSE [s |-> [s EXCEPT !.Resources[coll] =
                    Create(@, SchemaRecord(s.Schemas[coll],
                        Put(Put(r, "_id", Txt(newID)), "_v", Num(1))).rec).db],
          err |-> Create(s.Resources[coll], SchemaRecord(s.Schemas[coll],
                     Put(Put(r, "_id", Txt(newID)), "_v", Num(1))).rec).err]

\* Store.Get, lines 353-359: after db.Get returned g
AuthGetRow(g, schema) ==
    IF g.err # NoErr THEN [res |-> EmptyMap, err |-> g.err, nil |-> TRUE]
    ELSE IF Len(g.rec) < 2
    THEN [res |-> EmptyMap, err |-> NoErr, nil |-> TRUE]
    ELSE StoreGetParsed(SchemaResource(schema, g.rec))

\* Store.Get on the Store s
AuthGet(s, coll, id) ==
    IF coll \notin DOMAIN s.Resources
    THEN [res |-> EmptyMap, err |-> ErrNoResource, nil |-> TRUE]
    ELSE AuthGetRow(Get(s.Resources[coll], id), s.Schemas[coll])

\* Store.List on the Store s
AuthList(s, coll, sortBy) ==
    IF coll \notin DOMAIN s.Resources THEN [res |-> <<>>, err |-> ErrNoResource]
    ELSE StoreListSort(listFrom(s.Schemas[coll],
                                Iter(s.Resources[coll]).rows, 1, <<>>),
                       Iter(s.Resources[coll]), sortBy)

\* slices.Contains
SlicesContains(l, x) == \E j \in 1..Len(l) : l[j] = x

\* Store.Authorize, line 483: the rule p is not about resource and action
skips(p, resource, action) ==
    \/ Lookup(p, "resource") # Txt(resource)
    \/ /\ Lookup(p, "action") # Txt(Star)
       /\ Lookup(p, "action") # Txt(action)

\* Store.Authorize, line 486
public(p) == Lookup(p, "field") = Txt(<<>>) /\ Lookup(p, "role") = Txt(<<>>)

\* Store.Authorize, line 493
hasRole(p, user) ==
    \/ Lookup(p, "role") = Txt(Star)
    \/ SlicesContains(user["roles"].l, Lookup(p, "role").s)

\* owns with the bug "a list field is never searched"
ownsTextOnly(res, p, user) ==
    /\ Key(Lookup(p, "field").s) \in DOMAIN res
    /\ res[Key(Lookup(p, "field").s)] = user["_id"]

\* Store.Authorize, lines 502-506: the row res holds the user in p's field
owns(res, p, user) ==
    /\ Key(Lookup(p, "field").s) \in DOMAIN res
    /\ \/ res[Key(Lookup(p, "field").s)] = user["_id"]
       \/ /\ res[Key(Lookup(p, "field").s)].t = "list"
          /\ SlicesContains(res[Key(Lookup(p, "field").s)].l, user["_id"].s)

RECURSIVE authorizeFrom(_, _, _, _, _, _, _)
\* the loop of Store.Authorize, lines 482-508, from rule i on
authorizeFrom(s, permissions, i, resource, id, action, user) ==
    IF i > Len(permissions) THEN ErrUnauthorized
    ELSE IF skips(permissions[i], resource, action)
    THEN authorizeFrom(s, permissions, i + 1, resource, id, action, user)
    ELSE IF public(permissions[i]) THEN NoErr
    ELSE IF user = Nil THEN ErrUnauthenticated
    ELSE IF Lookup(user, "roles").t # "list"
            \/ Lookup(permissions[i], "role").t # "text"
    THEN PanicAssert
    ELSE IF hasRole(permissions[i], user) THEN NoErr
    ELSE IF id = <<>>
    THEN authorizeFrom(s, permissions, i + 1, resource, id, action, user)
    ELSE IF AuthGet(s, Key(resource), id).err # NoErr
    THEN AuthGet(s, Key(resource), id).err
    ELSE IF Lookup(user, "_id").t # "text"
            \/ Lookup(permissions[i], "field").t # "text"
    THEN PanicAssert
    ELSE IF owns(AuthGet(s, Key(resource), id).res, permissions[i], user)
    THEN NoErr
    ELSE authorizeFrom(s, permissions, i + 1, resource, id, action, user)

\* Store.Authorize, lines 478-481: after List returned l
authorizeListed(s, l, resource, id, action, user) ==
    IF l.err # NoErr THEN ErrPermissions(l.err)
    ELSE authorizeFrom(s, l.res, 1, resource, id, action, user)

\* Store.Authorize
Authorize(s, resource, id, action, user) ==
    authorizeListed(s, AuthList(s, "_permissions", ""),
                    resource, id, action, user)

\* a rule as the caller of Store.Create passes it
Rule(resource, action, field, role) ==
    [resource |-> Txt(resource), action |-> Txt(action),
     field |-> Txt(field), role |-> Txt(role)]

\* the rules a caller stores
RulePool ==
    { Rule(Books, ActRead, <<>>, <<>>),
      Rule(Books, Star, <<>>, <<>>),
      Rule(Books, ActUpdate, Owner, AdminEditor),
      Rule(Books, ActRead, <<>>, Admin),
      Rule(Books, ActUpdate, <<>>, Star),
      Rule(Books, ActRead, Owner, <<>>),
      Rule(Notes, ActRead, <<>>, <<>>) }

\* the owner cell of the one row of books
Owners == {Txt(Bob), Txt(Al), Lst(<<Al, Bob>>), Lst(<<>>)}

\* the caller: nobody, or a row of _users
Users ==
    { Nil,
      [_id |-> Txt(Bob), roles |-> Lst(<<>>)],
      [_id |-> Txt(Bob), roles |-> Lst(<<Editor>>)],
      [_id |-> Txt(Al), roles |-> Lst(<<Admin>>)] }

\* the identifier ID() gives the i-th rule
RuleId(i) == <<"p">> \o FormatG(i)

\* NewStore over a directory with no rules and one row of books
AuthStore(owner) ==
    AuthCreate([Schemas |-> [_permissions |-> PermissionsSchema,
                             books |-> OwnedSchema(owner.t)],
                Resources |-> [_permissions |-> EmptyDB, books |-> EmptyDB]],
               "books", [owner |-> owner], IdA).s

InitAuth ==
    /\ db \in {AuthStore(owner) : owner \in Owners}
    /\ pre = EmptyDB
    /\ ret = [op |-> "NewStore", arg |-> <<>>, err |-> NoErr, out |-> <<>>]
    /\ track = [i \in AllIds |-> NoTrack]
    /\ nrows = 0
    /\ pc = "ready"
    /\ loc = <<>>
    /\ mu = NoThread

AuthGhosts == UNCHANGED <<pre, track, pc, loc, mu>>

\* Store.Create("_permissions", rule)
AuthAddRule(rule) ==
    /\ nrows < MaxRules
    /\ db' = AuthCreate(db, "_permissions", rule, RuleId(nrows + 1)).s
    /\ ret' = [op |-> "Create", arg |-> rule,
               err |-> AuthCreate(db, "_permissions", rule,
                                  RuleId(nrows + 1)).err,
               out |-> <<>>]
    /\ nrows' = nrows + 1
    /\ AuthGhosts

\* Store.Authorize(resource, id, action, user)
AuthAuthorize(resource, id, action, user) ==
    /\ ret' = [op |-> "Authorize",
               arg |-> [resource |-> resource, id |-> id, action |-> action,
                        user |-> user],
               err |-> Authorize(db, resource, id, action, user),
               out |-> <<>>]
    /\ UNCHANGED <<db, nrows>>
    /\ AuthGhosts

NextAuth ==
    \/ \E rule \in RulePool : AuthAddRule(rule)
    \/ \E id \in AllIds, action \in {ActRead, ActUpdate}, user \in Users :
          AuthAuthorize(Books, id, action, user)

SpecAuth == InitAuth /\ [][NextAuth]_vars

\* the rules in storage order, as Store.List("_permissions", "") returns them
StoredRules == AuthList(db, "_permissions", "").res

\* the rule p is about the collection and the action of the call a
Matches(p, a) ==
    /\ p["resource"] = Txt(a.resource)
    /\ p["action"] \in {Txt(Star), Txt(a.action)}

\* the row the call a names exists and its field f is the caller's _id, or
\* a list holding it
OwnerMatch(f, a) ==
    /\ a.id # <<>>
    /\ AuthGet(db, Key(a.resource), a.id).err = NoErr
    /\ f \in DOMAIN AuthGet(db, Key(a.resource), a.id).res
    /\ \/ AuthGet(db, Key(a.resource), a.id).res[f] = a.user["_id"]
       \/ /\ AuthGet(db, Key(a.resource), a.id).res[f].t = "list"
          /\ SlicesContains(AuthGet(db, Key(a.resource), a.id).res[f].l,
                            a.user["_id"].s)

\* the rule p grants the call a: it is public, or the caller has its role,
\* or the caller owns the row
Grants(p, a) ==
    /\ Matches(p, a)
    /\ \/ public(p)
       \/ /\ a.user # Nil
          /\ \/ p["role"] = Txt(Star)
             \/ SlicesContains(a.user["roles"].l, p["role"].s)
             \/ OwnerMatch(Key(p["field"].s), a)

\* C18: when some stored rule matches the collection and the action of an
\* Authorize call and grants it (public, role match or ownership match), the
\* call succeeds whatever matching rules are stored before that rule; an
\* anonymous caller is granted by a public rule stored after a restricted one.
C18_GrantAnywhereInTheScan ==
    (ret.op = "Authorize"
       /\ \E i \in 1..Len(StoredRules) : Grants(StoredRules[i], ret.arg))
    => ret.err = NoErr

\* the only stored rule is (books, update, owner, "admin,editor")
OnlyRoleListRule ==
    /\ Len(StoredRules) = 1
    /\ \A k \in {"resource", "action", "field", "role"} :
          StoredRules[1][k] = Rule(Books, ActUpdate, Owner, AdminEditor)[k]

\* C19: with only the rule (books, update, owner, "admin,editor") stored,
\* Authorize(books, id, update, user) succeeds for a user whose roles are
\* [editor] whatever the id, the empty one included, and for a user whose
\* roles are [] exactly when id names a row whose owner is the user's _id or
\* a list holding it.
C19_RoleListRule ==
    (ret.op = "Authorize" /\ OnlyRoleListRule
       /\ ret.arg.action = ActUpdate /\ ret.arg.user # Nil)
    => /\ ret.arg.user["roles"] = Lst(<<Editor>>) => ret.err = NoErr
       /\ ret.arg.user["roles"] = Lst(<<>>) =>
             (ret.err = NoErr <=> OwnerMatch("owner", ret.arg))

\* the only stored rule is the public rule (books, read)
OnlyPublicRead ==
    /\ Len(StoredRules) = 1
    /\ \A k \in {"resource", "action", "field", "role"} :
          StoredRules[1][k] = Rule(Books, ActRead, <<>>, <<>>)[k]

\* C20: Authorize succeeds for an absent user when a stored rule with empty
\* field and empty role matches the collection and the action, exactly or
\* through "*"; with only the public rule (books, read) stored, an anonymous
\* read of books succeeds and an anonymous update of books fails with the
\* unauthenticated error.
C20_PublicRules ==
    (ret.op = "Authorize" /\ ret.arg.user = Nil)
    => /\ (\E i \in 1..Len(StoredRules) :
              Matches(StoredRules[i], ret.arg) /\ public(StoredRules[i]))
          => ret.err = NoErr
       /\ OnlyPublicRead =>
             /\ ret.arg.action = ActRead => ret.err = NoErr
             /\ ret.arg.action = ActUpdate => ret.err = ErrUnauthenticated

----------------------------------------------------------------------------
(* Rules that come and go, and a row whose owner changes.  A caller stores  *)
(* and deletes rules under identifiers it chooses (ID is a variable the     *)
(* program lets tests and embedders replace), changes the owner of the one  *)
(* row of books, and asks for authorization.                                *)

MaxPermRows == 3

\* Store.Update, lines 361-374 of part_004: after Store.Get returned g
AuthUpdateRead(g, schema, r) ==
    IF g.err # NoErr
    THEN [rec |-> <<>>, err |-> ErrWrapNotFound(g.err), orig |-> EmptyMap]
    ELSE StoreUpdateRecord(SchemaRecord(schema, StoreMerge(schema, r, g.res)),
                           g.res)

\* Store.Update, line 375: db.Update of the record p.rec
AuthUpdated(s, coll, p) ==
    IF p.err # NoErr THEN [s |-> s, err |-> p.err]
    ELSE [s |-> [s EXCEPT !.Resources[coll] = Update(@, p.rec).db],
          err |-> Update(s.Resources[coll], p.rec).err]

\* Store.Update on the Store s, by a single caller
AuthUpdate(s, coll, r) ==
    IF coll \notin DOMAIN s.Resources THEN [s |-> s, err |-> ErrNoResource]
    ELSE AuthUpdated(s, coll,
             AuthUpdateRead(AuthGet(s, coll, r["_id"].s), s.Schemas[coll], r))

\* Store.Delete on the Store s
AuthDelete(s, coll, id) ==
    IF coll \notin DOMAIN s.Resources THEN [s |-> s, err |-> ErrNoResource]
    ELSE [s |-> [s EXCEPT !.Resources[coll] = Delete(@, id).db],
          err |-> Delete(s.Resources[coll], id).err]

PermRuleIds == {RuleId(1), RuleId(2)}

PermRules ==
    { Rule(Books, ActRead, <<>>, <<>>),
      Rule(Books, ActUpdate, Owner, AdminEditor),
      Rule(Notes, Star, <<>>, <<>>) }

\* the owners the row of books starts with, and those it is given later
PermFirstOwners == {Txt(Bob), Lst(<<Al>>)}

PermNextOwners == {Txt(Al), Lst(<<Bob, Al>>)}

PermUsers ==
    { Nil,
      [_id |-> Txt(Bob), roles |-> Lst(<<>>)],
      [_id |-> Txt(Al), roles |-> Lst(<<Editor>>)] }

InitPerm ==
    /\ db \in {AuthStore(owner) : owner \in PermFirstOwners}
    /\ pre = EmptyDB
    /\ ret = [op |-> "NewStore", arg |-> <<>>, err |-> NoErr, out |-> <<>>]
    /\ track = [i \in AllIds |-> NoTrack]
    /\ nrows = 0
    /\ pc = "ready"
    /\ loc = <<>>
    /\ mu = NoThread

\* what a Store operation returned: the Store res.s and the error res.err
PermDone(res, op, arg) ==
    /\ db' = res.s
    /\ nrows' = IF res.s # db THEN nrows + 1 ELSE nrows
    /\ ret' = [op |-> op, arg |-> arg, err |-> res.err, out |-> <<>>]
    /\ AuthGhosts

\* Store.Create("_permissions", rule) with ID() returning newID
PermCreate(rule, newID) ==
    /\ nrows < MaxPermRows
    /\ PermDone(AuthCreate(db, "_permissions", rule, newID), "Create", rule)

\* Store.Delete("_permissions", id)
PermDelete(id) ==
    /\ nrows < MaxPermRows
    /\ PermDone(AuthDelete(db, "_permissions", id), "Delete", id)

\* Store.Update("books", {_id: "a", owner: owner})
PermSetOwner(owner) ==
    /\ nrows < MaxPermRows
    /\ PermDone(AuthUpdate(db, "books", [_id |-> Txt(IdA), owner |-> owner]),
                "Update", owner)

NextPerm ==
    \/ \E rule \in PermRules, newID \in PermRuleIds : PermCreate(rule, newID)
    \/ \E id \in PermRuleIds : PermDelete(id)
    \/ \E owner \in PermNextOwners : PermSetOwner(owner)
    \/ \E id \in AllIds, action \in {ActRead, ActUpdate}, user \in PermUsers :
          AuthAuthorize(Books, id, action, user)

SpecPerm == InitPerm /\ [][NextPerm]_vars

\* the rules whose identifier is live, each as its latest row gives it
LiveRules ==
    {AuthGet(db, "_permissions", id).res :
        id \in {i \in PermRuleIds : Get(db.Resources["_permissions"], i).err = NoErr}}

\* the user u holds a role the rule p names: any role, or one of its list
HoldsRole(p, u) ==
    \/ p["role"] = Txt(Star)
    \/ \E j \in 1..Len(Split(p["role"].s)) :
          SlicesContains(u["roles"].l, Split(p["role"].s)[j])

\* the latest row of identifier id in the file of books, as a resource
LatestResource(id) ==
    SchemaResource(db.Schemas["books"],
        RowAt(db.Resources["books"].file,
              Max(StartsOf(db.Resources["books"].file, id)))).res

\* the latest row of the identifier the call a names holds the caller's _id
\* in field f, as a text or in a list
LatestOwns(f, a) ==
    /\ a.id # <<>>
    /\ StartsOf(db.Resources["books"].file, a.id) # {}
    /\ f \in DOMAIN LatestResource(a.id)
    /\ \/ LatestResource(a.id)[f] = a.user["_id"]
       \/ /\ LatestResource(a.id)[f].t = "list"
          /\ SlicesContains(LatestResource(a.id)[f].l, a.user["_id"].s)

\* C21: Authorize returns success only if some live _permissions row is
\* about the collection and the action (or "*") of the call and is public,
\* or names role "*" or a role the user holds, or names a field of the row
\* id that equals or contains the user's _id; otherwise it returns an error,
\* and a rule for another collection or another action never grants.
C21_DefaultDeny ==
    (ret.op = "Authorize" /\ ret.err = NoErr) =>
        \E p \in LiveRules :
            /\ Matches(p, ret.arg)
            /\ \/ public(p)
               \/ /\ ret.arg.user # Nil
                  /\ \/ HoldsRole(p, ret.arg.user)
                     \/ LatestOwns(Key(p["field"].s), ret.arg)

\* the rules List returns that are about the call a
MatchingRules(a) ==
    {i \in 1..Len(StoredRules) : Matches(StoredRules[i], a)}

\* C22: for a user who holds none of the roles of the matching rules, none
\* of them public, Authorize succeeds exactly when the id is not empty and
\* the latest row of that id holds, in the field a matching rule names, a
\* text equal to the user's _id or a list containing it; with an empty id
\* ownership never grants.
C22_OwnershipPerRow ==
    (/\ ret.op = "Authorize"
     /\ ret.arg.user # Nil
     /\ \A i \in MatchingRules(ret.arg) :
           ~public(StoredRules[i]) /\ ~HoldsRole(StoredRules[i], ret.arg.user))
    => (ret.err = NoErr <=>
           \E i \in MatchingRules(ret.arg) :
               LatestOwns(Key(StoredRules[i]["field"].s), ret.arg))

\* an owner who was given the row by an update is granted through the rule
C22_Witness ==
    /\ ret.op = "Authorize"
    /\ ret.arg.user # Nil
    /\ MatchingRules(ret.arg) # {}
    /\ \A i \in MatchingRules(ret.arg) :
          ~public(StoredRules[i]) /\ ~HoldsRole(StoredRules[i], ret.arg.user)
    /\ ret.err = NoErr
    /\ verOf(db.Resources["books"], ret.arg.id) = 2

----------------------------------------------------------------------------
(* Session tokens: SignSession and VerifySession against the clock.         *)

\* time.Now().Unix() when the process starts
Epoch == 1700000000

\* the 24 hours of VerifySession, in seconds
Day == 86400

\* the seconds after Epoch at which something happens
Offsets == {0, 82800, Day - 1, Day, Day + 1, 90000}

RECURSIVE SplitOn(_, _)
\* strings.Split(x, sep) for a separator of one byte
SplitOn(x, sep) ==
    IF IndexOf(x, sep) = 0 THEN <<x>>
    ELSE <<SubSeq(x, 1, IndexOf(x, sep) - 1)>>
         \o SplitOn(SubSeq(x, IndexOf(x, sep) + 1, Len(x)), sep)

\* base32 of sha256.Sum256(x), taken as free of collisions: the digest is
\* written as its input behind a mark, the separators "." and ":" of a
\* token written as letters no input holds (base32 has neither separator)
Base32Sum(x) ==
    <<"#">> \o [i \in 1..Len(x) |->
                  IF x[i] = "." THEN "D" ELSE IF x[i] = ":" THEN "C" ELSE x[i]]

\* SessionKey, drawn once when the process starts
SessionKey == <<"k">>

\* a secret that is not the one of this process
OtherKey == <<"j">>

\* the first 16 characters of the base32 text, lines 274 and 285
Signature(key, data) == Base32Sum(key \o data)

\* SignSession(username) at time now
SignSession(username, now) ==
    username \o <<":">> \o FormatInt(now) \o <<".">>
    \o Signature(SessionKey, username \o <<":">> \o FormatInt(now))

\* VerifySession, lines 289-296: the payload data, whose signature matched
verifyPayload(parts, now) ==
    IF Len(parts) = 2 /\ ParseInt(parts[2]).ok
       /\ now - ParseInt(parts[2]).val < Day
    THEN [username |-> parts[1], ok |-> TRUE]
    ELSE [username |-> <<>>, ok |-> FALSE]

\* VerifySession, lines 279-288, on the parts of the token
verifyParts(parts, now) ==
    IF Len(parts) # 2 THEN [username |-> <<>>, ok |-> FALSE]
    ELSE IF parts[2] # Signature(SessionKey, parts[1])
    THEN [username |-> <<>>, ok |-> FALSE]
    ELSE verifyPayload(SplitOn(parts[1], ":"), now)

\* VerifySession(session) at time now
VerifySession(session, now) == verifyParts(SplitOn(session, "."), now)

\* the usernames that log in: plain ones, an address, one with a colon
DotName == <<"a", ".", "b">>

ColonName == <<"a", ":", "b">>

SessionNames == {Bob, Al, DotName, ColonName}

NoCookie == [token |-> <<>>, username |-> <<>>, at |-> 0]

\* what a client may present given the cookie c it was handed: the token,
\* the token signed under another secret, the payload of a later time
\* under the old signature, and the payload without a signature
Presented(c, kind) ==
    CASE kind = "token" -> c.token
      [] kind = "otherkey" ->
           c.username \o <<":">> \o FormatInt(c.at) \o <<".">>
           \o Signature(OtherKey, c.username \o <<":">> \o FormatInt(c.at))
      [] kind = "extended" ->
           c.username \o <<":">> \o FormatInt(c.at + Day) \o <<".">>
           \o Signature(SessionKey, c.username \o <<":">> \o FormatInt(c.at))
      [] OTHER -> c.username \o <<":">> \o FormatInt(c.at)

PresentedKinds == {"token", "otherkey", "extended", "unsigned"}

InitSession ==
    /\ db = EmptyDB
    /\ pre = EmptyDB
    /\ ret = [op |-> "NewServer", arg |-> <<>>, err |-> NoErr, out |-> <<>>]
    /\ track = [i \in AllIds |-> NoTrack]
    /\ nrows = 0
    /\ pc = "ready"
    /\ loc = [now |-> Epoch, cookie |-> NoCookie]
    /\ mu = NoThread

SessionGhosts == UNCHANGED <<db, pre, track, nrows, pc, mu>>

\* handleLogin, line 701: the cookie set to SignSession(username)
SessSign(username) ==
    /\ loc' = [loc EXCEPT !.cookie = [token |-> SignSession(username, loc.now),
                                      username |-> username, at |-> loc.now]]
    /\ ret' = [op |-> "SignSession", arg |-> username, err |-> NoErr,
               out |-> SignSession(username, loc.now)]
    /\ SessionGhosts

\* the clock moves on
SessTick(offset) ==
    /\ Epoch + offset > loc.now
    /\ loc' = [loc EXCEPT !.now = Epoch + offset]
    /\ ret' = [op |-> "Tick", arg |-> <<>>, err |-> NoErr, out |-> <<>>]
    /\ SessionGhosts

\* VerifySession(session)
SessVerify(session) ==
    /\ loc.cookie # NoCookie
    /\ ret' = [op |-> "VerifySession", arg |-> session,
               err |-> IF VerifySession(session, loc.now).ok THEN NoErr
                       ELSE ErrUnauthenticated,
               out |-> VerifySession(session, loc.now).username]
    /\ UNCHANGED loc
    /\ SessionGhosts

NextSession ==
    \/ \E username \in SessionNames : SessSign(username)
    \/ \E offset \in Offsets : SessTick(offset)
    \/ \E kind \in PresentedKinds : SessVerify(Presented(loc.cookie, kind))

SpecSession == InitSession /\ [][NextSession]_vars

\* C24: a token SignSession produced at time t verifies, returning the
\* signed username, at every time not more than 24 hours after t, and is
\* rejected at every later time; a token whose signature part is not the
\* signature of its payload under the current secret is rejected always.
C24_SessionExpiry ==
    ret.op = "VerifySession" =>
        IF ret.arg = loc.cookie.token
        THEN IF loc.now - loc.cookie.at <= Day
             THEN ret.err = NoErr /\ ret.out = loc.cookie.username
             ELSE ret.err # NoErr
        ELSE ret.err # NoErr

----------------------------------------------------------------------------
(* Authentication: the Store holds _users; users are added, change their    *)
(* password and are deleted, log in for a session cookie, and requests      *)
(* carry a cookie, credentials, both or neither.                            *)

MaxUserRows == 3

\* the rows s7..s11 of _schemas.csv
UsersSchema ==
    << Field("_id", "text", 0, 0, "^.+$"),
       Field("_v", "number", 1, 0, ""),
       Field("salt", "text", 0, 0, ""),
       Field("password", "text", 0, 0, "^.+$"),
       Field("roles", "list", 0, 0, "") >>

\* HashPasswd(passwd, salt)
HashPasswd(passwd, salt) == Base32Sum(salt \o passwd)

ErrUsers(err) == "users error: " \o err

\* AuthenticateBasic with the bug "the password is not compared"
authenticateGotAnyPassword(g, password) ==
    IF g.err # NoErr THEN [user |-> Nil, err |-> ErrUsers(g.err)]
    ELSE IF Lookup(g.res, "salt").t # "text"
    THEN [user |-> Nil, err |-> PanicAssert]
    ELSE [user |-> g.res, err |-> NoErr]

\* AuthenticateBasic, lines 468-474: after Store.Get returned g
authenticateGot(g, password) ==
    IF g.err # NoErr THEN [user |-> Nil, err |-> ErrUsers(g.err)]
    ELSE IF Lookup(g.res, "salt").t # "text"
    THEN [user |-> Nil, err |-> PanicAssert]
    ELSE IF Lookup(g.res, "password")
               # Txt(HashPasswd(password, g.res["salt"].s))
    THEN [user |-> Nil, err |-> ErrUnauthenticated]
    ELSE [user |-> g.res, err |-> NoErr]

\* Store.AuthenticateBasic(username, password)
AuthenticateBasic(s, username, password) ==
    authenticateGot(AuthGet(s, "_users", username), password)

\* Store.Authenticate, lines 453-457: after Store.Get returned g
authenticateCookie(g) ==
    IF g.err # NoErr THEN [user |-> Nil, err |-> ErrUsers(g.err)]
    ELSE IF g.nil THEN [user |-> Nil, err |-> NoErr]
    ELSE [user |-> g.res, err |-> NoErr]

\* Store.Authenticate, lines 451-462: v is what VerifySession returned
authenticateVerified(s, v, r) ==
    IF r.hasCookie /\ v.ok
    THEN authenticateCookie(AuthGet(s, "_users", v.username))
    ELSE IF r.basic THEN AuthenticateBasic(s, r.username, r.password)
    ELSE [user |-> Nil, err |-> ErrUnauthenticated]

\* Store.Authenticate(r) at time now
Authenticate(s, r, now) ==
    authenticateVerified(s, VerifySession(r.cookie, now), r)

Passwords == {<<"x">>, <<"y">>}

\* the salt Salt() gave a user
SaltOf(name) == IF name = Bob THEN <<"s">> ELSE <<"t">>

\* a row of _users as the caller of Store.Create passes it
UserRow(name, passwd) ==
    [salt |-> Txt(SaltOf(name)),
     password |-> Txt(HashPasswd(passwd, SaltOf(name))),
     roles |-> Lst(<<Editor>>)]

\* a request: its session cookie and its Basic credentials, each optional
Request(hasCookie, cookie, basic, username, password) ==
    [hasCookie |-> hasCookie, cookie |-> cookie, basic |-> basic,
     username |-> username, password |-> password]

\* the requests a client sends, before its cookie jar fills in the cookie
Requests ==
    {Request(c, <<>>, TRUE, u, p) :
        c \in BOOLEAN, u \in {Bob, Al, <<>>}, p \in Passwords}
    \cup {Request(c, <<>>, FALSE, <<>>, <<>>) : c \in BOOLEAN}

\* the request r with the cookie of the jar, if it sends one
WithCookie(r, token) == IF r.hasCookie THEN [r EXCEPT !.cookie = token] ELSE r

InitLogin ==
    /\ db = [Schemas |-> [_users |-> UsersSchema],
             Resources |-> [_users |-> EmptyDB]]
    /\ pre = EmptyDB
    /\ ret = [op |-> "NewServer", arg |-> <<>>, err |-> NoErr, out |-> <<>>]
    /\ track = [i \in AllIds |-> NoTrack]
    /\ nrows = 0
    /\ pc = "ready"
    /\ loc = [now |-> Epoch, cookie |-> NoCookie]
    /\ mu = NoThread

LoginGhosts == UNCHANGED <<pre, track, pc, mu>>

\* what a Store operation on _users returned
LoginStored(res, op, arg) ==
    /\ db' = res.s
    /\ nrows' = IF res.s # db THEN nrows + 1 ELSE nrows
    /\ ret' = [op |-> op, arg |-> arg, err |-> res.err, out |-> <<>>]
    /\ UNCHANGED loc
    /\ LoginGhosts

\* Store.Create("_users", row) with ID() returning the name
LoginAddUser(name) ==
    /\ nrows < MaxUserRows
    /\ LoginStored(AuthCreate(db, "_users", UserRow(name, <<"x">>), name),
                   "Create", name)

\* Store.Delete("_users", name)
LoginDeleteUser(name) ==
    /\ nrows < MaxUserRows
    /\ LoginStored(AuthDelete(db, "_users", name), "Delete", name)

\* Store.Update("_users", {_id: "bob", password: hash of the new password})
LoginSetPassword(passwd) ==
    /\ nrows < MaxUserRows
    /\ LoginStored(AuthUpdate(db, "_users",
                       [_id |-> Txt(Bob),
                        password |-> Txt(HashPasswd(passwd, SaltOf(Bob)))]),
                   "Update", passwd)

\* handleLogin: what AuthenticateBasic returned decides on the cookie
LoginDone(res, username, password) ==
    /\ loc' = IF res.err = NoErr
              THEN [loc EXCEPT !.cookie =
                       [token |-> SignSession(username, loc.now),
                        username |-> username, at |-> loc.now]]
              ELSE loc
    /\ ret' = [op |-> "Login",
               arg |-> [r |-> Request(FALSE, <<>>, TRUE, username, password),
                        now |-> loc.now],
               err |-> res.err, out |-> res.user]
    /\ UNCHANGED <<db, nrows>>

\* handleLogin
LoginLogin(username, password) ==
    /\ LoginDone(AuthenticateBasic(db, username, password), username, password)
    /\ LoginGhosts

\* more than a day passes
LoginTick ==
    /\ loc.now = Epoch
    /\ loc' = [loc EXCEPT !.now = Epoch + Day + 1]
    /\ ret' = [op |-> "Tick", arg |-> <<>>, err |-> NoErr, out |-> <<>>]
    /\ UNCHANGED <<db, nrows>>
    /\ LoginGhosts

\* what Store.Authenticate returned for the request r
LoginAuthenticated(res, r) ==
    /\ ret' = [op |-> "Authenticate", arg |-> [r |-> r, now |-> loc.now],
               err |-> res.err, out |-> res.user]
    /\ UNCHANGED <<db, nrows, loc>>

\* Store.Authenticate(r)
LoginAuthenticate(r) ==
    /\ LoginAuthenticated(Authenticate(db, r, loc.now), r)
    /\ LoginGhosts

NextLogin ==
    \/ \E name \in {Bob, Al} : LoginAddUser(name)
    \/ \E name \in {Bob, Al} : LoginDeleteUser(name)
    \/ \E passwd \in Passwords : LoginSetPassword(passwd)
    \/ \E username \in {Bob, Al}, password \in Passwords :
          LoginLogin(username, password)
    \/ LoginTick
    \/ \E r \in Requests : LoginAuthenticate(WithCookie(r, loc.cookie.token))

SpecLogin == InitLogin /\ [][NextLogin]_vars

\* the rows of the user in the file of _users
UserStarts(name) == StartsOf(db.Resources["_users"].file, name)

\* the latest row of the user
LatestUserRow(name) == RowAt(db.Resources["_users"].file, Max(UserStarts(name)))

\* the user has a row and the latest one is no deletion
LiveUser(name) ==
    /\ UserStarts(name) # {}
    /\ LatestUserRow(name)[2] # <<"0">>

\* the request r carries the name of a live user and the password whose
\* hash under the stored salt is the stored password
GoodCredentials(r) ==
    /\ r.basic
    /\ LiveUser(r.username)
    /\ LatestUserRow(r.username)[4]
          = HashPasswd(r.password, LatestUserRow(r.username)[3])

\* the request r carries a validly signed, unexpired token
TokenVerifies(r, now) == r.hasCookie /\ VerifySession(r.cookie, now).ok

----------------------------------------------------------------------------
(* The Broker.  The variable db holds its table and the channels, mu the    *)
(* number of holders of the read lock; Subscribe and Unsubscribe hold the   *)
(* write lock for their whole body and are one step each.  Publish holds    *)
(* the read lock while it ranges over the subscribers, one send per step,   *)
(* in any order; receivers, and whoever closes a channel, run in between.   *)

MaxBuf == 1

MaxEvents == 2

Publishers == {1, 2}

Chans == {1, 2, 3}

\* the collection the handler owning the channel streams
ResourceOf(ch) == IF ch = 3 THEN "notes" ELSE "books"

NoLog == [ch \in {} |-> [outcome |-> "", len |-> 0]]

PubIdle == [resource |-> "", evt |-> 0, subs |-> {}, closed |-> {},
            todo |-> {}, log |-> NoLog]

PanicClosed == "panic: send on closed channel"

\* select { case ch <- evt: default: } on the channel c
trySend(c, evt) ==
    IF c.closed THEN [c |-> c, outcome |-> "panic"]
    ELSE IF Len(c.buf) < MaxBuf
    THEN [c |-> [c EXCEPT !.buf = Append(@, evt)], outcome |-> "sent"]
    ELSE [c |-> c, outcome |-> "dropped"]

InitBroker ==
    /\ db = [channels |-> [r \in {"books", "notes"} |-> {}],
             chan |-> [ch \in Chans |-> [buf |-> <<>>, closed |-> FALSE]]]
    /\ pre = EmptyDB
    /\ ret = [op |-> "NewServer", arg |-> <<>>, err |-> NoErr, out |-> <<>>]
    /\ track = [ch \in Chans |-> {}]
    /\ nrows = 0
    /\ pc = [t \in Publishers |-> "idle"]
    /\ loc = [t \in Publishers |-> PubIdle]
    /\ mu = 0

\* a Broker whose write lock is granted while Publish holds the read lock
brLockAlways(readers) == TRUE

\* b.mu.Lock(): granted when no Publish holds the read lock
brLock(readers) == readers = 0

\* Broker.Subscribe(resource, ch): the channel is a key of the inner map
BrSubscribe(ch) ==
    /\ brLock(mu)
    /\ db' = [db EXCEPT !.channels[ResourceOf(ch)] = @ \cup {ch}]
    /\ ret' = [op |-> "Subscribe", arg |-> ch, err |-> NoErr,
               out |-> ch \in db.channels[ResourceOf(ch)]]
    /\ UNCHANGED <<pre, track, nrows, pc, loc, mu>>

\* Broker.Unsubscribe(resource, ch); out tells whether the call follows a
\* second Subscribe of the channel
BrUnsubscribe(ch) ==
    /\ brLock(mu)
    /\ db' = [db EXCEPT !.channels[ResourceOf(ch)] = @ \ {ch}]
    /\ ret' = [op |-> "Unsubscribe", arg |-> ch, err |-> NoErr,
               out |-> ret.op = "Subscribe" /\ ret.arg = ch /\ ret.out]
    /\ UNCHANGED <<pre, track, nrows, pc, loc, mu>>

\* close(ch) by the owner of the channel
BrClose(ch) ==
    /\ ~db.chan[ch].closed
    /\ db' = [db EXCEPT !.chan[ch].closed = TRUE]
    /\ UNCHANGED <<pre, ret, track, nrows, pc, loc, mu>>

\* e := <-events in handleEvents
BrReceive(ch) ==
    /\ db.chan[ch].buf # <<>>
    /\ db' = [db EXCEPT !.chan[ch].buf = Tail(@)]
    /\ UNCHANGED <<pre, ret, track, nrows, pc, loc, mu>>

\* Broker.Publish, lines 541-543: the read lock and the subscribers
BrPublishStart(t, resource) ==
    /\ pc[t] = "idle"
    /\ nrows < MaxEvents
    /\ mu' = mu + 1
    /\ nrows' = nrows + 1
    /\ pc' = [pc EXCEPT ![t] = "sending"]
    /\ loc' = [loc EXCEPT ![t] =
                  [resource |-> resource, evt |-> nrows + 1,
                   subs |-> db.channels[resource],
                   closed |-> {ch \in db.channels[resource] : db.chan[ch].closed},
                   todo |-> db.channels[resource], log |-> NoLog]]
    /\ UNCHANGED <<db, pre, ret, track>>

\* what a Publish that ended leaves behind: its outcome per subscriber
Published(t, err, log) ==
    [op |-> "Publish",
     arg |-> [resource |-> loc[t].resource, evt |-> loc[t].evt,
              subs |-> loc[t].subs, closed |-> loc[t].closed,
              after |-> db.channels[loc[t].resource]],
     err |-> err, out |-> log]

\* the log l with the outcome of the send to ch
Logged(l, ch, outcome, len) ==
    [c \in (DOMAIN l) \cup {ch} |->
        IF c = ch THEN [outcome |-> outcome, len |-> len] ELSE l[c]]

\* Broker.Publish, lines 544-548: the send to one subscriber, res its result
BrSent(t, ch, res) ==
    IF res.outcome = "panic"
    THEN /\ mu' = mu - 1
         /\ pc' = [pc EXCEPT ![t] = "idle"]
         /\ loc' = [loc EXCEPT ![t] = PubIdle]
         /\ ret' = Published(t, PanicClosed,
                       Logged(loc[t].log, ch, "panic", Len(db.chan[ch].buf)))
         /\ UNCHANGED <<db, track>>
    ELSE /\ db' = [db EXCEPT !.chan[ch] = res.c]
         /\ track' = IF res.outcome = "sent"
                     THEN [track EXCEPT ![ch] = @ \cup {loc[t].evt}]
                     ELSE track
         /\ loc' = [loc EXCEPT ![t].todo = @ \ {ch},
                               ![t].log = Logged(@, ch, res.outcome,
                                                 Len(db.chan[ch].buf))]
         /\ UNCHANGED <<ret, pc, mu>>

\* Broker.Publish, one turn of the loop over the subscribers
BrPublishSend(t, ch) ==
    /\ pc[t] = "sending"
    /\ ch \in loc[t].todo
    /\ BrSent(t, ch, trySend(db.chan[ch], loc[t].evt))
    /\ UNCHANGED <<pre, nrows>>

\* Broker.Publish, line 551: the loop is over, the read lock is released
BrPublishEnd(t) ==
    /\ pc[t] = "sending"
    /\ loc[t].todo = {}
    /\ mu' = mu - 1
    /\ pc' = [pc EXCEPT ![t] = "idle"]
    /\ loc' = [loc EXCEPT ![t] = PubIdle]
    /\ ret' = Published(t, NoErr, loc[t].log)
    /\ UNCHANGED <<db, pre, track, nrows>>

NextBroker ==
    \/ \E ch \in Chans : BrSubscribe(ch)
    \/ \E ch \in Chans : BrUnsubscribe(ch)
    \/ \E ch \in Chans : BrClose(ch)
    \/ \E ch \in Chans : BrReceive(ch)
    \/ \E t \in Publishers, resource \in {"books", "notes"} :
          BrPublishStart(t, resource)
    \/ \E t \in Publishers, ch \in Chans : BrPublishSend(t, ch)
    \/ \E t \in Publishers : BrPublishEnd(t)

SpecBroker == InitBroker /\ [][NextBroker]_vars

\* C25: every Publish returns, having enqueued the event for each subscriber
\* registered for the collection whose buffer had room and dropped it only
\* for those whose buffer was full, whatever the other subscribers' buffers
\* hold; subscribers of other collections receive nothing.
C25_PublishNeverBlocks ==
    /\ ret.op = "Publish" =>
          /\ ret.err = NoErr
          /\ DOMAIN ret.out = ret.arg.subs
          /\ \A ch \in DOMAIN ret.out :
                /\ ret.out[ch].outcome =
                      IF ret.out[ch].len < MaxBuf THEN "sent" ELSE "dropped"
                /\ ret.out[ch].outcome = "sent" <=> ret.arg.evt \in track[ch]
          /\ \A ch \in Chans \ ret.arg.subs : ret.arg.evt \notin track[ch]
    /\ \A t \in Publishers :
          pc[t] = "sending" =>
             \/ ENABLED BrPublishEnd(t)
             \/ \E ch \in Chans : ENABLED BrPublishSend(t, ch)

\* C26: a Publish that finds the channel of a registered subscriber closed
\* completes normally, removes that subscriber from the table and delivers
\* the event to the other subscribers whose buffer has room.
C26_ClosedSubscriberDropped ==
    (ret.op = "Publish" /\ ret.arg.closed # {}) =>
        /\ ret.err = NoErr
        /\ ret.arg.after \cap ret.arg.closed = {}
        /\ \A ch \in ret.arg.subs \ ret.arg.closed :
              /\ ch \in DOMAIN ret.out
              /\ ret.out[ch].len < MaxBuf => ret.arg.evt \in track[ch]

----------------------------------------------------------------------------
(* The Server: the handlers of POST, PUT and DELETE on /api/books/ and the  *)
(* streams of GET /api/events/books.  A handler writes through the Store    *)
(* and then publishes; the write and the Publish are steps of their own, so *)
(* that other handlers and the streams run in between.  The variable db     *)
(* holds the Store and, for every stream, its channel; track counts the     *)
(* deletions of each identifier and keeps the requests whose write failed.  *)

MaxRequests == 2

Handlers == {1, 2}

Streams == {1}

\* the users Store.Authenticate gives a stream when it is opened
StreamUsers ==
    { [_id |-> Txt(Bob), roles |-> Lst(<<>>)],
      [_id |-> Txt(Al), roles |-> Lst(<<Editor>>)] }

ServerRules ==
    { Rule(Books, ActRead, Owner, <<>>),
      Rule(Books, ActRead, <<>>, Editor) }

ServerOwners == {Txt(Bob), Txt(Al), Num(1)}

\* NewStore over a directory with one rule and one row of books
ServerStore(rule) ==
    AuthCreate(AuthCreate([Schemas |-> [_permissions |-> PermissionsSchema,
                                        books |-> OwnedSchema("text")],
                           Resources |-> [_permissions |-> EmptyDB,
                                          books |-> EmptyDB]],
                          "_permissions", rule, RuleId(1)).s,
               "books", [owner |-> Txt(Bob)], IdA).s

\* Event{Action, ID, Data} of the request req; dels is the number of
\* deletions of the row's identifier that had happened when the handler's
\* write returned
Event(action, id, data, req, dels) ==
    [Action |-> action, ID |-> id, Data |-> data, req |-> req, dels |-> dels]

NoEvent == Event("", <<>>, EmptyMap, 0, 0)

NoUpdate == [rec |-> <<>>, err |-> NoErr, orig |-> EmptyMap]

HandlerIdle == [evt |-> NoEvent, p |-> NoUpdate]

\* a handler whose write returned err: it publishes all the same
afterWriteAlways(err) == "publish"

\* handleCreate, handleUpdate, handleDelete: a handler whose write returned
\* err answers 500 and returns; otherwise it goes on to Publish
afterWrite(err) == IF err # NoErr THEN "idle" ELSE "publish"

\* the condition of handleEvents, line 756: the event is written to the
\* stream; err is what Authorize returned
emits(e, err) == e.Action = "delete" \/ err = NoErr

\* || evaluates its right operand only if the left one is false
consults(e) == e.Action # "delete"

InitServer ==
    /\ db \in {[s |-> ServerStore(rule), user |-> user,
                chan |-> [u \in Streams |-> [buf |-> <<>>, closed |-> FALSE]]]
               : rule \in ServerRules, user \in [Streams -> StreamUsers]}
    /\ pre = [u \in Streams |-> NoEvent]
    /\ ret = [op |-> "NewServer", arg |-> <<>>, err |-> NoErr, out |-> <<>>]
    /\ track = [dels |-> [i \in AllIds |-> 0], failed |-> {}]
    /\ nrows = 0
    /\ pc = [t \in Handlers |-> "idle"]
    /\ loc = [t \in Handlers |-> HandlerIdle]
    /\ mu = NoThread

\* the Store call of the handler t about the row id returned res; evt is
\* the event the handler publishes if it gets that far
Written(t, id, res, evt) ==
    /\ db' = [db EXCEPT !.s = res.s]
    /\ pc' = [pc EXCEPT ![t] = afterWrite(res.err)]
    /\ loc' = [loc EXCEPT ![t] =
                  IF afterWrite(res.err) = "idle" THEN HandlerIdle
                  ELSE [evt |-> evt, p |-> NoUpdate]]
    /\ ret' = [op |-> "Write", arg |-> evt, err |-> res.err, out |-> <<>>]
    /\ track' = [dels |-> IF evt.Action = "deleted" /\ res.err = NoErr
                          THEN [track.dels EXCEPT ![id] = @ + 1]
                          ELSE track.dels,
                 failed |-> IF res.err # NoErr
                            THEN track.failed \cup {evt.req}
                            ELSE track.failed]

\* handleCreate, lines 623-637, with ID() returning newID
SrvCreate(t, owner, newID) ==
    /\ pc[t] = "idle"
    /\ nrows < MaxRequests
    /\ nrows' = nrows + 1
    /\ Written(t, newID, AuthCreate(db.s, "books", [owner |-> owner], newID),
               Event("created", newID,
                     Put(Put([owner |-> owner], "_id", Txt(newID)),
                         "_v", Num(1)),
                     nrows + 1, track.dels[newID]))
    /\ UNCHANGED <<pre, mu>>

\* handleUpdate, lines 658-668, and Store.Update up to db.Update: g is what
\* Store.Get returned, r the decoded body with the path's id
SrvUpdateGot(t, g, r) ==
    /\ pc' = [pc EXCEPT ![t] = "update"]
    /\ loc' = [loc EXCEPT ![t] =
                  [evt |-> Event("updated", r["_id"].s,
                                 IF g.err # NoErr THEN r
                                 ELSE StoreMerge(db.s.Schemas["books"], r, g.res),
                                 nrows + 1, 0),
                   p |-> AuthUpdateRead(g, db.s.Schemas["books"], r)]]

SrvUpdateRead(t, id, owner) ==
    /\ pc[t] = "idle"
    /\ nrows < MaxRequests
    /\ nrows' = nrows + 1
    /\ SrvUpdateGot(t, AuthGet(db.s, "books", id),
                    [_id |-> Txt(id), owner |-> owner])
    /\ UNCHANGED <<db, pre, ret, track, mu>>

\* Store.Update, line 375, and handleUpdate, lines 668-671
SrvUpdateWrite(t) ==
    /\ pc[t] = "update"
    /\ Written(t, loc[t].evt.ID, AuthUpdated(db.s, "books", loc[t].p),
               [loc[t].evt EXCEPT !.dels = track.dels[loc[t].evt.ID]])
    /\ UNCHANGED <<pre, nrows, mu>>

\* handleDelete, lines 679-688
SrvDelete(t, id) ==
    /\ pc[t] = "idle"
    /\ nrows < MaxRequests
    /\ nrows' = nrows + 1
    /\ Written(t, id, AuthDelete(db.s, "books", id),
               Event("deleted", <<>>, AuthGet(db.s, "books", id).res,
                     nrows + 1, 0))
    /\ UNCHANGED <<pre, mu>>

\* s.Broker.Publish(resource, evt) of the handler t
SrvPublish(t) ==
    /\ pc[t] = "publish"
    /\ db' = [db EXCEPT !.chan =
                 [u \in Streams |-> trySend(db.chan[u], loc[t].evt).c]]
    /\ pc' = [pc EXCEPT ![t] = "idle"]
    /\ loc' = [loc EXCEPT ![t] = HandlerIdle]
    /\ ret' = [op |-> "Publish", arg |-> loc[t].evt, err |-> NoErr,
               out |-> <<>>]
    /\ UNCHANGED <<pre, track, nrows, mu>>

\* handleEvents, lines 755-760: the stream u takes the event e from its
\* channel; authz is what Authorize returns, get what a Store.Get of the
\* event's id returns at this moment; pre keeps the event the stream
\* received last
SrvReceived(u, e, authz, get) ==
    /\ db' = [db EXCEPT !.chan[u].buf = Tail(@)]
    /\ pre' = [pre EXCEPT ![u] = e]
    /\ ret' = [op |-> "Receive",
               arg |-> [stream |-> u, evt |-> e],
               err |-> IF consults(e) THEN authz ELSE NoErr,
               out |-> [consulted |-> consults(e),
                        emitted |-> emits(e, authz),
                        get |-> get, dels |-> track.dels[e.ID],
                        prev |-> pre[u]]]

SrvReceive(u) ==
    /\ db.chan[u].buf # <<>>
    /\ SrvReceived(u, Head(db.chan[u].buf),
                   Authorize(db.s, Books, Head(db.chan[u].buf).ID, ActRead,
                             db.user[u]),
                   AuthGet(db.s, "books", Head(db.chan[u].buf).ID))
    /\ UNCHANGED <<track, nrows, pc, loc, mu>>

NextServer ==
    \/ \E t \in Handlers, owner \in ServerOwners, newID \in Ids :
          SrvCreate(t, owner, newID)
    \/ \E t \in Handlers, id \in Ids, owner \in {Txt(Bob), Txt(Al)} :
          SrvUpdateRead(t, id, owner)
    \/ \E t \in Handlers : SrvUpdateWrite(t)
    \/ \E t \in Handlers, id \in Ids : SrvDelete(t, id)
    \/ \E t \in Handlers : SrvPublish(t)
    \/ \E u \in Streams : SrvReceive(u)

SpecServer == InitServer /\ [][NextServer]_vars

\* the version the event's data carries
EventVersion(e) ==
    IF "_v" \in DOMAIN e.Data /\ e.Data["_v"].t = "number"
    THEN e.Data["_v"].n ELSE 0

\* the events that are about to be published or wait in a channel
EventsInFlight ==
    {loc[t].evt : t \in {h \in Handlers : pc[h] = "publish"}}
    \cup UNION {{db.chan[u].buf[i] : i \in 1..Len(db.chan[u].buf)}
                : u \in Streams}

\* the row of identifier e.ID and of the event's version is in the log
RowWritten(e) ==
    \E o \in StartsOf(db.s.Resources["books"].file, e.ID) :
       /\ Len(RowAt(db.s.Resources["books"].file, o)) >= 2
       /\ RowAt(db.s.Resources["books"].file, o)[2] = FormatInt(EventVersion(e))

\* C27: when a stream receives a created or updated event for x and x was
\* not deleted since the handler's write, a Get of x succeeds, finds the row
\* and returns a version that is not older than the event's; every created
\* or updated event that is published or about to be is the event of a row
\* that was appended, and no event is the event of a request whose write
\* failed.
C27_WriteThenPublish ==
    /\ (/\ ret.op = "Receive"
        /\ ret.arg.evt.Action \in {"created", "updated"}
        /\ ret.out.dels = ret.arg.evt.dels)
       => /\ ret.out.get.err = NoErr
          /\ ~ret.out.get.nil
          /\ Lookup(ret.out.get.res, "_v").n >= EventVersion(ret.arg.evt)
    /\ \A e \in EventsInFlight :
          e.Action \in {"created", "updated"} => RowWritten(e)
    /\ \A e \in EventsInFlight : e.req \notin track.failed
    /\ ret.op = "Receive" => ret.arg.evt.req \notin track.failed

\* an updated event is received after a later update of the same row: Get
\* returns the newer version
C27_Witness ==
    /\ ret.op = "Receive"
    /\ ret.arg.evt.Action = "updated"
    /\ ret.out.dels = ret.arg.evt.dels
    /\ ret.out.get.err = NoErr
    /\ Lookup(ret.out.get.res, "_v").n > EventVersion(ret.arg.evt)

\* C28: a stream emits every deletion event it receives, without asking
\* Authorize; it emits a created or updated event if and only if
\* Authorize(collection, event id, read, the stream's user) succeeds when
\* the event is received.
C28_StreamingFilter ==
    ret.op = "Receive" =>
        /\ ret.arg.evt.Action = "deleted" =>
              ret.out.emitted /\ ~ret.out.consulted
        /\ ret.arg.evt.Action \in {"created", "updated"} =>
              /\ ret.out.consulted
              /\ ret.out.emitted <=> ret.err = NoErr

----------------------------------------------------------------------------
(* NewStore and Store.Close.  The _schemas log is written through the Row   *)
(* Log operations, row by row; NewStore then reads it, and the Store is     *)
(* used and closed.  Collection and field names stay the cells they are in  *)
(* the file.  The variable db holds the _schemas log, the Store and the     *)
(* files the process holds open.                                            *)

MaxSchemaRows == 3

SchemaIds == {<<"s">>, <<"u">>}

CollB == <<"b">>

CollN == <<"n">>

CollNames == {CollB, CollN}

FieldNames == {<<"f">>, <<"g">>}

\* a row of _schemas.csv: id, version, resource, field, type, min, max,
\* regex; or the same row without its last cell
SchemaRow(id, v, res, field, cols) ==
    IF cols = 8
    THEN <<id, v, res, field, <<"t", "e", "x", "t">>, <<"0">>, <<"9">>, <<>> >>
    ELSE <<id, v, res, field, <<"t", "e", "x", "t">>, <<"0">>, <<"9">> >>

ErrInvalidSchemaRecord == "invalid schema record"

\* the handle NewStore holds on _schemas.csv
SchemasLog == <<"_", "s", "c", "h", "e", "m", "a", "s">>

ErrClose == "close: input/output error"

Orders == {<<CollB, CollN>>, <<CollN, CollB>>}

NoBadLog == <<>>

\* the number strconv.ParseFloat returns: 0 together with an error
FloatOrZero(cell) == IF ParseFloat(cell).ok THEN ParseFloat(cell).val ELSE 0

\* NewStore, lines 318-325: the FieldSchema of the row rec
fieldSchema(rec) ==
    [Resource |-> rec[3], Field |-> rec[4], Type |-> rec[5],
     Min |-> FloatOrZero(rec[6]), Max |-> FloatOrZero(rec[7]),
     Regex |-> rec[8]]

NoStore == [Schemas |-> EmptyMap, Resources |-> EmptyMap]

\* NewStore, lines 326-333: the field is appended to the schema of its
\* collection, and the collection's log is opened unless it is open
newStoreField(s, f) ==
    [Schemas |-> Put(s.Schemas, f.Resource,
                     Append(IF f.Resource \in DOMAIN s.Schemas
                            THEN s.Schemas[f.Resource] ELSE <<>>, f)),
     Resources |-> IF f.Resource \in DOMAIN s.Resources THEN s.Resources
                   ELSE Put(s.Resources, f.Resource, NewCSVDB(<<>>).db)]

RECURSIVE closeFrom(_, _, _, _)
\* the loop of Store.Close, lines 442-446, over the logs in the order the
\* map yields them; the Close of the log bad returns an error, and open is
\* the set of the handles that have not been closed
closeFrom(order, i, bad, open) ==
    IF i > Len(order) THEN [open |-> open, err |-> NoErr]
    ELSE IF order[i] = bad THEN [open |-> open \ {order[i]}, err |-> ErrClose]
    ELSE closeFrom(order, i + 1, bad, open \ {order[i]})

\* the logs of the Store s in the order order
Ranged(s, order) == SelectSeq(order, LAMBDA c : c \in DOMAIN s.Resources)

RECURSIVE newStoreFrom(_, _, _)
\* the loop of NewStore, lines 311-335, over the rows Iter yields
newStoreFrom(it, i, s) ==
    IF i > Len(it.rows)
    THEN IF it.err # NoErr
         THEN [s |-> NoStore, err |-> it.err, held |-> DOMAIN s.Resources]
         ELSE [s |-> s, err |-> NoErr, held |-> DOMAIN s.Resources]
    ELSE IF Len(it.rows[i]) # 8
    THEN [s |-> NoStore, err |-> ErrInvalidSchemaRecord,
          held |-> DOMAIN s.Resources]
    ELSE newStoreFrom(it, i + 1, newStoreField(s, fieldSchema(it.rows[i])))

\* NewStore, lines 307-310: NewCSVDB returned opened
newStoreOpened(opened) ==
    IF opened.err # NoErr THEN [s |-> NoStore, err |-> opened.err, held |-> {}]
    ELSE [newStoreFrom(Iter(opened.db), 1, NoStore)
             EXCEPT !.held = @ \cup {SchemasLog}]

\* NewStore over a directory whose _schemas.csv holds data
NewStore(data) == newStoreOpened(NewCSVDB(data))

InitBoot ==
    /\ db = [schemas |-> EmptyDB, s |-> NoStore, open |-> {}]
    /\ pre = EmptyDB
    /\ ret = [op |-> "Open", arg |-> <<>>, err |-> NoErr, out |-> <<>>]
    /\ track = [i \in AllIds |-> NoTrack]
    /\ nrows = 0
    /\ pc = "edit"
    /\ loc = <<>>
    /\ mu = NoThread

\* the _schemas log after a Row Log operation that returned res
SchemaEdited(res) ==
    /\ res.err = NoErr
    /\ db' = [db EXCEPT !.schemas = res.db]
    /\ nrows' = nrows + 1
    /\ UNCHANGED <<pre, ret, track, pc, loc, mu>>

\* Create of a row of _schemas
SchCreate(id, res, field, cols) ==
    /\ pc = "edit"
    /\ nrows < MaxSchemaRows
    /\ SchemaEdited(Create(db.schemas, SchemaRow(id, <<"1">>, res, field, cols)))

\* Update of a row of _schemas
SchUpdate(id, res, field, cols) ==
    /\ pc = "edit"
    /\ nrows < MaxSchemaRows
    /\ verOf(db.schemas, id) >= 1
    /\ SchemaEdited(Update(db.schemas,
           SchemaRow(id, FormatInt(verOf(db.schemas, id) + 1), res, field,
                     cols)))

\* Delete of a row of _schemas
SchDelete(id) ==
    /\ pc = "edit"
    /\ nrows < MaxSchemaRows
    /\ SchemaEdited(Delete(db.schemas, id))

\* NewStore(dir) returned res
BootOpened(res) ==
    /\ db' = [db EXCEPT !.s = res.s, !.open = res.held]
    /\ pc' = IF res.err = NoErr THEN "up" ELSE "failed"
    /\ ret' = [op |-> "NewStore", arg |-> <<>>, err |-> res.err, out |-> res.s]

BootNewStore ==
    /\ pc = "edit"
    /\ BootOpened(NewStore(db.schemas.file))
    /\ UNCHANGED <<pre, track, nrows, loc, mu>>

\* a Store operation on the collection coll returned err
BootCalled(op, coll, err) ==
    /\ ret' = [op |-> op, arg |-> coll, err |-> err, out |-> <<>>]
    /\ UNCHANGED <<db, pre, track, nrows, pc, loc, mu>>

\* Store.Get(coll, id)
BootGet(coll, id) ==
    /\ pc = "up"
    /\ BootCalled("Get", coll, AuthGet(db.s, coll, id).err)

\* Store.Update(coll, {_id: id})
BootUpdate(coll, id) ==
    /\ pc = "up"
    /\ BootCalled("Update", coll, AuthUpdate(db.s, coll, [_id |-> Txt(id)]).err)

\* Store.Delete(coll, id)
BootDelete(coll, id) ==
    /\ pc = "up"
    /\ BootCalled("Delete", coll, AuthDelete(db.s, coll, id).err)

\* Store.List(coll, "")
BootList(coll) ==
    /\ pc = "up"
    /\ BootCalled("List", coll, AuthList(db.s, coll, "").err)

\* Store.Close returned res
BootClosed(res) ==
    /\ db' = [db EXCEPT !.open = res.open]
    /\ ret' = [op |-> "Close", arg |-> db.open, err |-> res.err, out |-> <<>>]

\* Store.Close, the map ranged over in the order order
BootClose(order, bad) ==
    /\ pc = "up"
    /\ pc' = "closed"
    /\ BootClosed(closeFrom(Ranged(db.s, order), 1, bad, db.open))
    /\ UNCHANGED <<pre, track, nrows, loc, mu>>

NextBoot ==
    \/ \E id \in SchemaIds, res \in CollNames, field \in FieldNames,
          cols \in {7, 8} : SchCreate(id, res, field, cols)
    \/ \E id \in SchemaIds, res \in CollNames, field \in FieldNames,
          cols \in {7, 8} : SchUpdate(id, res, field, cols)
    \/ \E id \in SchemaIds : SchDelete(id)
    \/ BootNewStore
    \/ \E coll \in CollNames, id \in Ids : BootGet(coll, id)
    \/ \E coll \in CollNames, id \in Ids : BootUpdate(coll, id)
    \/ \E coll \in CollNames, id \in Ids : BootDelete(coll, id)
    \/ \E coll \in CollNames : BootList(coll)
    \/ \E order \in Orders, bad \in CollNames \cup {NoBadLog} :
          BootClose(order, bad)

SpecBoot == InitBoot /\ [][NextBoot]_vars

\* the offsets of the live rows of _schemas: the latest row of every
\* identifier whose latest row is not a tombstone
LiveStarts ==
    {Max(StartsOf(db.schemas.file, id)) :
        id \in {i \in SchemaIds : verOf(db.schemas, i) >= 1}}

\* the collections named in column 2 of a live row
NamedCollections == {RowAt(db.schemas.file, o)[3] : o \in LiveStarts}

RECURSIVE Ascending(_)
\* the elements of the set of numbers S in ascending order
Ascending(S) ==
    IF S = {} THEN <<>>
    ELSE <<Least(S)>> \o Ascending(S \ {Least(S)})

RECURSIVE FieldsOf(_, _)
\* the field schemas of the rows at the offsets os that name coll
FieldsOf(os, coll) ==
    IF os = <<>> THEN <<>>
    ELSE IF RowAt(db.schemas.file, Head(os))[3] = coll
    THEN <<fieldSchema(RowAt(db.schemas.file, Head(os)))>>
             \o FieldsOf(Tail(os), coll)
    ELSE FieldsOf(Tail(os), coll)

\* C29: NewStore fails with the invalid-schema-record error if a live row
\* of _schemas does not have 8 columns; when it succeeds the Store owns one
\* Row Log for each collection named in a live row and for no other, and
\* the schema of each lists the fields of its live rows in file order; an
\* operation on a collection that no live row names fails with the
\* unknown-collection error.
C29_Bootstrap ==
    /\ ret.op = "NewStore" =>
          /\ (\E o \in LiveStarts : Len(RowAt(db.schemas.file, o)) # 8)
                => ret.err = ErrInvalidSchemaRecord
          /\ ret.err = NoErr =>
                /\ DOMAIN ret.out.Resources = NamedCollections
                /\ DOMAIN ret.out.Schemas = NamedCollections
                /\ \A c \in NamedCollections :
                      ret.out.Schemas[c] = FieldsOf(Ascending(LiveStarts), c)
    /\ (ret.op \in {"Get", "Update", "Delete", "List"}
        /\ ret.arg \notin NamedCollections) => ret.err = ErrNoResource

\* C30: after Store.Close returned, with or without an error, none of the
\* Row Logs NewStore opened is still open: not the _schemas log, not the
\* log of any collection.
C30_Teardown == ret.op = "Close" => db.open = {}

----------------------------------------------------------------------------
(* The session round trip *)

\* C31: for every username, those holding "." or ":" included, the token
\* SignSession gave for it verifies under the unchanged secret at every
\* time less than 24 hours later, and VerifySession returns the username.
C31_SessionRoundTrip ==
    (/\ ret.op = "VerifySession"
     /\ ret.arg = loc.cookie.token
     /\ loc.now - loc.cookie.at < Day)
    => ret.err = NoErr /\ ret.out = loc.cookie.username

\* C32: a channel that is not registered gets no event: from the moment
\* Unsubscribe returned, no step of a Publish, started later or running
\* since before, enqueues on it; and after an Unsubscribe the channel is
\* not registered, also when it had been subscribed twice.
C32_UnsubscribeStopsDelivery ==
    [][/\ \A ch \in Chans :
             ch \notin db.channels[ResourceOf(ch)] =>
                /\ track'[ch] = track[ch]
                /\ Len(db'.chan[ch].buf) <= Len(db.chan[ch].buf)
       /\ ret'.op = "Unsubscribe" =>
             ret'.arg \notin db'.channels[ResourceOf(ret'.arg)]
       /\ \A t \in Publishers :
             pc'[t] = "sending" =>
                loc'[t].todo \subseteq db'.channels[loc'[t].resource]]_vars

\* a Publish to books delivers to channel 2 and not to channel 1, which
\* had received an event before and was unsubscribed
C32_Witness ==
    /\ ret.op = "Publish"
    /\ ret.arg.resource = "books"
    /\ ret.arg.subs = {2}
    /\ track[1] # {}
    /\ ret.arg.evt \in track[2]
    /\ ret.arg.evt \notin track[1]

----------------------------------------------------------------------------
(* Rows that do not parse.  The Row Log of books is written row by row      *)
(* through its own operations, with cells the schema does not accept and    *)
(* with rows that lack a cell; the Store lists it and reads from it.        *)

MaxParseRows == 3

YearSchema ==
    << Field("_id", "text", 0, 0, "^.+$"),
       Field("_v", "number", 1, 0, ""),
       Field("year", "number", 0, 9, "") >>

\* the third cell of a row: a number, a text that is none, or no cell
YearCells == {<<"7">>, <<"x">>}

NoCell == <<"-">>

YearRow(id, v, cell) == IF cell = NoCell THEN <<id, v>> ELSE <<id, v, cell>>

InitParse ==
    /\ db = [Schemas |-> [books |-> YearSchema], Resources |-> [books |-> EmptyDB]]
    /\ pre = EmptyDB
    /\ ret = [op |-> "NewStore", arg |-> <<>>, err |-> NoErr, out |-> <<>>]
    /\ track = [i \in AllIds |-> NoTrack]
    /\ nrows = 0
    /\ pc = "ready"
    /\ loc = <<>>
    /\ mu = NoThread

\* the Row Log of books after an operation of its own that returned res
ParseWritten(res) ==
    /\ res.err = NoErr
    /\ db' = [db EXCEPT !.Resources["books"] = res.db]
    /\ nrows' = nrows + 1
    /\ ret' = [op |-> "Append", arg |-> <<>>, err |-> NoErr, out |-> <<>>]
    /\ UNCHANGED <<pre, track, pc, loc, mu>>

ParseCreate(id, cell) ==
    /\ nrows < MaxParseRows
    /\ ParseWritten(Create(db.Resources["books"], YearRow(id, <<"1">>, cell)))

ParseUpdate(id, cell) ==
    /\ nrows < MaxParseRows
    /\ ParseWritten(Update(db.Resources["books"],
           YearRow(id, FormatInt(verOf(db.Resources["books"], id) + 1), cell)))

ParseDelete(id) ==
    /\ nrows < MaxParseRows
    /\ ParseWritten(Delete(db.Resources["books"], id))

\* a Store operation returned res
ParseCalled(op, arg, res) ==
    /\ ret' = [op |-> op, arg |-> arg, err |-> res.err, out |-> res.res]
    /\ UNCHANGED <<db, pre, track, nrows, pc, loc, mu>>

\* Store.List("books", "")
ParseList ==
    /\ nrows > 0
    /\ ParseCalled("List", <<>>, AuthList(db, "books", ""))

\* Store.Get("books", id)
ParseGet(id) ==
    /\ nrows > 0
    /\ ParseCalled("Get", id, AuthGet(db, "books", id))

NextParse ==
    \/ \E id \in Ids, cell \in YearCells \cup {NoCell} : ParseCreate(id, cell)
    \/ \E id \in Ids, cell \in YearCells \cup {NoCell} : ParseUpdate(id, cell)
    \/ \E id \in Ids : ParseDelete(id)
    \/ ParseList
    \/ \E id \in Ids : ParseGet(id)

SpecParse == InitParse /\ [][NextParse]_vars

\* the file of the Row Log of books
YearFile == db.Resources["books"].file

\* what Schema.Resource makes of the row at offset o
ParsedAt(o) == SchemaResource(YearSchema, RowAt(YearFile, o))

\* the offsets of the live rows that do not parse
FailingLive ==
    {o \in {Max(StartsOf(YearFile, id)) :
               id \in {i \in Ids : verOf(db.Resources["books"], i) >= 1}} :
        ParsedAt(o).err # NoErr}

\* C33: when a live row does not parse, List returns a parse error and
\* every resource it returns is of a row before the first such row; Get of
\* an identifier whose live row does not parse returns that row's parse
\* error; no resource and no error of List comes from an identifier whose
\* current version is 0, and Get of such an identifier is not-found.
C33_ParseErrors ==
    /\ ret.op = "List" =>
          /\ FailingLive # {} =>
                /\ ret.err \in {ErrShortRecord, ErrSyntax}
                /\ \A i \in 1..Len(ret.out) :
                      \E o \in RowStarts(YearFile, 0) :
                         /\ o < Least(FailingLive)
                         /\ ParsedAt(o).err = NoErr
                         /\ ParsedAt(o).res = ret.out[i]
          /\ \A i \in 1..Len(ret.out) :
                verOf(db.Resources["books"], ret.out[i]["_id"].s) >= 1
          /\ ret.err # NoErr =>
                \E o \in RowStarts(YearFile, 0) :
                   /\ verOf(db.Resources["books"], RowAt(YearFile, o)[1]) >= 1
                   /\ ParsedAt(o).err = ret.err
    /\ ret.op = "Get" =>
          IF verOf(db.Resources["books"], ret.arg) < 1
          THEN ret.err = ErrNotFound
          ELSE ret.err = ParsedAt(Max(StartsOf(YearFile, ret.arg))).err

\* List stops at a live row that does not parse, having returned the row
\* before it
C33_Witness ==
    /\ ret.op = "List"
    /\ ret.err # NoErr
    /\ Len(ret.out) = 1
    /\ FailingLive # {}

----------------------------------------------------------------------------
(* The HTTP adapter: PUT and DELETE on /api/books/{id} behind the auth      *)
(* middleware.  The middleware's Authorize, the Store calls of the handler  *)
(* and its Publish are steps of their own; two requests are served          *)
(* concurrently.  The Store holds the books a (of bob) and b (of al) and    *)
(* one rule: whoever the owner field names may do anything to the row.      *)
(* track keeps the requests that were denied, wrote and published.          *)

MaxAdRequests == 2

AdRule == Rule(Books, Star, Owner, <<>>)

AdUsers ==
    { Nil,
      [_id |-> Txt(Bob), roles |-> Lst(<<>>)],
      [_id |-> Txt(Al), roles |-> Lst(<<>>)] }

\* the JSON bodies of PUT: an owner, with or without an _id
AdBodies ==
    {[owner |-> o] : o \in {Txt(Bob), Txt(Al)}}
    \cup {[owner |-> Txt(Bob), _id |-> Txt(i)] : i \in Ids}

AdStore ==
    AuthCreate(AuthCreate(AuthStore(Txt(Bob)), "books", [owner |-> Txt(Al)],
                          IdB).s,
               "_permissions", AdRule, RuleId(1)).s

\* the action the middleware asks for, line 574
ActionOf(method) == IF method = "PUT" THEN ActUpdate ELSE <<"d", "e", "l", "e", "t", "e">>

\* a handler that lets the _id of the body stand
decodedKeepBodyId(body, pathId) ==
    IF "_id" \in DOMAIN body THEN body ELSE Put(body, "_id", Txt(pathId))

\* handleUpdate, lines 658-664: the decoded body with the path's id
decoded(body, pathId) == Put(body, "_id", Txt(pathId))

AdIdle == [method |-> "", id |-> <<>>, body |-> EmptyMap, user |-> Nil,
           req |-> 0, p |-> NoUpdate]

InitAdapter ==
    /\ db = AdStore
    /\ pre = EmptyDB
    /\ ret = [op |-> "NewServer", arg |-> <<>>, err |-> NoErr, out |-> <<>>]
    /\ track = [denied |-> {}, wrote |-> {}, pub |-> {}]
    /\ nrows = 0
    /\ pc = [t \in Handlers |-> "idle"]
    /\ loc = [t \in Handlers |-> AdIdle]
    /\ mu = NoThread

\* the auth middleware, lines 571-582: Authorize returned err
AdAuthorized(t, r, err) ==
    /\ pc' = [pc EXCEPT ![t] = IF err # NoErr THEN "idle" ELSE "authorized"]
    /\ loc' = [loc EXCEPT ![t] = IF err # NoErr THEN AdIdle ELSE r]
    /\ track' = IF err # NoErr
                THEN [track EXCEPT !.denied = @ \cup {r.req}] ELSE track
    /\ ret' = [op |-> "Authorize", arg |-> r, err |-> err, out |-> <<>>]

AdAuth(t, method, id, body, user) ==
    /\ pc[t] = "idle"
    /\ nrows < MaxAdRequests
    /\ nrows' = nrows + 1
    /\ AdAuthorized(t, [method |-> method, id |-> id, body |-> body,
                        user |-> user, req |-> nrows + 1, p |-> NoUpdate],
                    Authorize(db, Books, id, ActionOf(method), user))
    /\ UNCHANGED <<db, pre, mu>>

\* handleUpdate and Store.Update up to db.Update: r is the decoded body
AdUpdateGot(t, r) ==
    /\ pc' = [pc EXCEPT ![t] = "update"]
    /\ loc' = [loc EXCEPT ![t].p =
                  AuthUpdateRead(AuthGet(db, "books", r["_id"].s),
                                 db.Schemas["books"], r)]

AdUpdateRead(t) ==
    /\ pc[t] = "authorized"
    /\ loc[t].method = "PUT"
    /\ AdUpdateGot(t, decoded(loc[t].body, loc[t].id))
    /\ UNCHANGED <<db, pre, ret, track, nrows, mu>>

\* the Store call of the request of t about the row id returned res; old
\* is the latest row of id before the call
AdWritten(t, op, id, old, res) ==
    /\ db' = res.s
    /\ pc' = [pc EXCEPT ![t] = afterWrite(res.err)]
    /\ loc' = [loc EXCEPT ![t] = IF afterWrite(res.err) = "idle" THEN AdIdle
                                 ELSE loc[t]]
    /\ track' = IF res.s # db THEN [track EXCEPT !.wrote = @ \cup {loc[t].req}]
                ELSE track
    /\ ret' = [op |-> op,
               arg |-> [req |-> loc[t].req, authId |-> loc[t].id,
                        user |-> loc[t].user, id |-> id, old |-> old],
               err |-> res.err, out |-> <<>>]

\* Store.Update, line 375, and handleUpdate, lines 668-671
AdUpdateWrite(t) ==
    /\ pc[t] = "update"
    /\ AdWritten(t, "Update",
                 IF loc[t].p.err = NoErr THEN loc[t].p.rec[1] ELSE <<>>,
                 IF loc[t].p.err = NoErr
                 THEN AuthGet(db, "books", loc[t].p.rec[1]).res ELSE EmptyMap,
                 AuthUpdated(db, "books", loc[t].p))
    /\ UNCHANGED <<pre, nrows, mu>>

\* handleDelete, lines 679-687
AdDelete(t) ==
    /\ pc[t] = "authorized"
    /\ loc[t].method = "DELETE"
    /\ AdWritten(t, "Delete", loc[t].id, AuthGet(db, "books", loc[t].id).res,
                 AuthDelete(db, "books", loc[t].id))
    /\ UNCHANGED <<pre, nrows, mu>>

\* s.Broker.Publish of the handler t
AdPublish(t) ==
    /\ pc[t] = "publish"
    /\ pc' = [pc EXCEPT ![t] = "idle"]
    /\ loc' = [loc EXCEPT ![t] = AdIdle]
    /\ track' = [track EXCEPT !.pub = @ \cup {loc[t].req}]
    /\ ret' = [op |-> "Publish", arg |-> loc[t], err |-> NoErr, out |-> <<>>]
    /\ UNCHANGED <<db, pre, nrows, mu>>

NextAdapter ==
    \/ \E t \in Handlers, id \in Ids, body \in AdBodies, user \in AdUsers :
          AdAuth(t, "PUT", id, body, user)
    \/ \E t \in Handlers, id \in Ids, user \in AdUsers :
          AdAuth(t, "DELETE", id, EmptyMap, user)
    \/ \E t \in Handlers : AdUpdateRead(t)
    \/ \E t \in Handlers : AdUpdateWrite(t)
    \/ \E t \in Handlers : AdDelete(t)
    \/ \E t \in Handlers : AdPublish(t)

SpecAdapter == InitAdapter /\ [][NextAdapter]_vars

\* the last row of the Row Log of books
LastBookRow ==
    RowAt(db.Resources["books"].file,
          Max(RowStarts(db.Resources["books"].file, 0)))

\* C34: the row an update request appends is a row of the id that was
\* passed to Authorize, whatever _id the body carries; a request whose
\* Authorize failed has written nothing and published nothing.
C34_UpdatesTheAuthorizedRow ==
    /\ (ret.op = "Update" /\ ret.err = NoErr) =>
          /\ ret.arg.id = ret.arg.authId
          /\ LastBookRow[1] = ret.arg.authId
    /\ track.denied \cap (track.wrote \cup track.pub) = {}
    /\ \A t \in Handlers : pc[t] # "idle" => loc[t].req \notin track.denied

\* bob, authorized for a, sends a body whose _id is b: a is updated
C34_Witness ==
    /\ ret.op = "Update"
    /\ ret.err = NoErr
    /\ ret.arg.authId = IdA
    /\ \E t \in Handlers :
          /\ loc[t].req = ret.arg.req
          /\ "_id" \in DOMAIN loc[t].body
          /\ loc[t].body["_id"] = Txt(IdB)
    /\ track.denied # {}

\* C38: when an update or delete of a row is applied for a user whose only
\* grant is the ownership rule, the row version it supersedes names that
\* user as the owner.
C38_NoCheckToUseGap ==
    (ret.op \in {"Update", "Delete"} /\ ret.err = NoErr) =>
        /\ "owner" \in DOMAIN ret.arg.old
        /\ ret.arg.old["owner"] = ret.arg.user["_id"]

----------------------------------------------------------------------------
(* The order of the events of one row, in SpecServer.                       *)

\* C37: when a stream receives the updated events of two successful updates
\* of the same row one after the other, it receives them in the order in
\* which their rows were appended: the event received first carries the
\* lower version.
C37_EventOrderPerId ==
    (/\ ret.op = "Receive"
     /\ ret.arg.evt.Action = "updated"
     /\ ret.out.prev.Action = "updated"
     /\ ret.out.prev.ID = ret.arg.evt.ID
     /\ ret.out.prev.dels = ret.arg.evt.dels)
    => EventVersion(ret.out.prev) < EventVersion(ret.arg.evt)

----------------------------------------------------------------------------
(* Store.Update against Create with a reused id and Delete.  The log holds  *)
(* the book a when the callers start; Store.Update is its two critical      *)
(* sections, Store.Get and db.Update, and the other caller runs between.    *)

MaxMergeRows == 4

MergeArgs == {[_id |-> Txt(IdA), year |-> Num(7)],
              [_id |-> Txt(IdA), title |-> Txt(DataQ)]}

MergeIdle == [arg |-> EmptyMap, rec |-> <<>>]

InitMerge ==
    /\ db = StoreCreate(EmptyDB, "books", [title |-> Txt(DataX)], IdA).db
    /\ pre = EmptyDB
    /\ ret = [op |-> "NewStore", arg |-> <<>>, err |-> NoErr, out |-> <<>>]
    /\ track = [i \in AllIds |-> NoTrack]
    /\ nrows = 1
    /\ pc = [t \in Writers |-> "idle"]
    /\ loc = [t \in Writers |-> MergeIdle]
    /\ mu = NoThread

\* a Store call of the caller t returned res
MergeCalled(t, op, arg, res, out) ==
    /\ db' = res.db
    /\ pre' = db
    /\ nrows' = Grown(res)
    /\ ret' = [op |-> op, arg |-> arg, err |-> res.err, out |-> out]
    /\ pc' = [pc EXCEPT ![t] = "idle"]
    /\ loc' = [loc EXCEPT ![t] = MergeIdle]
    /\ UNCHANGED <<track, mu>>

\* Store.Create("books", {title}), with ID() returning id
MgCreate(t, id, title) ==
    /\ pc[t] = "idle"
    /\ nrows < MaxMergeRows
    /\ MergeCalled(t, "Create", id,
                   StoreCreate(db, "books", [title |-> Txt(title)], id), <<>>)

\* Store.Delete("books", id)
MgDelete(t, id) ==
    /\ pc[t] = "idle"
    /\ nrows < MaxMergeRows
    /\ MergeCalled(t, "Delete", id, StoreDelete(db, "books", id), <<>>)

\* Store.Update, lines 318-335: p is what Store.Get, the merge and
\* Schema.Record made of the resource r
MgUpdateGot(t, r, p) ==
    /\ pc' = [pc EXCEPT ![t] = IF p.err # NoErr THEN "idle" ELSE "upd_write"]
    /\ loc' = [loc EXCEPT ![t] = IF p.err # NoErr THEN MergeIdle
                                 ELSE [arg |-> r, rec |-> p.rec]]
    /\ ret' = [op |-> "Get", arg |-> r, err |-> p.err, out |-> <<>>]

MgUpdateRead(t, r) ==
    /\ pc[t] = "idle"
    /\ nrows < MaxMergeRows
    /\ MgUpdateGot(t, r, StoreUpdateRead(db, "books", r))
    /\ UNCHANGED <<db, pre, track, nrows, mu>>

\* Store.Update, line 336; out holds the resource of the row handed to
\* db.Update and what Store.Get returns just before the append
MgUpdateWrite(t) ==
    /\ pc[t] = "upd_write"
    /\ MergeCalled(t, "Update", loc[t].arg,
                   StoreUpdateAppend(db, loc[t].rec),
                   [row |-> SchemaResource(Schemas["books"], loc[t].rec).res,
                    latest |-> StoreGet(db, "books", loc[t].arg["_id"].s)])

NextMerge ==
    \/ \E t \in Writers, title \in Data : MgCreate(t, IdA, title)
    \/ \E t \in Writers : MgDelete(t, IdA)
    \/ \E t \in Writers, r \in MergeArgs : MgUpdateRead(t, r)
    \/ \E t \in Writers : MgUpdateWrite(t)

SpecMerge == InitMerge /\ [][NextMerge]_vars

\* the schema fields a caller of Store.Update may leave out
MergedFields == {"title", "year", "genres"}

\* C39: the row a successful Store.Update appends carries, for every schema
\* field absent from the caller's resource, the value of that field in the
\* row that was the latest of the id immediately before the append.
C39_NoStaleMerge ==
    (ret.op = "Update" /\ ret.err = NoErr)
    => \A f \in MergedFields \ DOMAIN ret.arg :
          Lookup(ret.out.row, f) = Lookup(ret.out.latest.res, f)

----------------------------------------------------------------------------
(* Frame and version sequence of the Row Log, checked under Spec *)

\* the row a successful call of op with the argument arg appends
RowAppended(op, arg) == IF op = "Delete" THEN <<arg, <<"0">> >> ELSE arg

\* C35: a successful Create, Update or Delete adds exactly one row at the
\* end of the file and a failed one adds none; the file before a call is a
\* prefix of the file after it; Get and Iter change neither the file nor the
\* index nor the version map.
C35_AppendOnlyFrame ==
    /\ ret.op \in {"Create", "Update", "Delete"} =>
          IF ret.err = NoErr
          THEN /\ db.file = pre.file \o csvWrite(RowAppended(ret.op, ret.arg))
               /\ RowStarts(db.file, 0)
                     = RowStarts(pre.file, 0) \cup {Len(pre.file)}
               /\ Len(pre.file) \notin RowStarts(pre.file, 0)
               /\ RowAt(db.file, Len(pre.file)) = RowAppended(ret.op, ret.arg)
          ELSE db.file = pre.file
    /\ Len(pre.file) <= Len(db.file)
    /\ SubSeq(db.file, 1, Len(pre.file)) = pre.file
    /\ ret.op \in {"Get", "Iter"} => db = pre

\* C35 witness: an Update added a row to a file that held rows, and the
\* same Update, repeated, failed and added none
C35_Witness ==
    /\ ret.op = "Update"
    /\ ret.err # NoErr
    /\ db = pre
    /\ RowStarts(db.file, 0) # {}
    /\ RowAt(db.file, Max(RowStarts(db.file, 0))) = ret.arg
    /\ Cardinality(RowStarts(db.file, 0)) >= 2

\* the version the row at offset o carries
VersionAt(o) == ParseInt(RowAt(db.file, o)[2]).val

\* the rows of id before the one at offset o
Before(id, o) == {q \in StartsOf(db.file, id) : q < o}

\* the version v may follow the version prev of the same identifier; prev
\* is -1 when the identifier has no row yet
Follows(prev, v) ==
    IF prev < 0 THEN v = 1
    ELSE \/ v = prev + 1
         \/ v = 0 /\ prev >= 1
         \/ v = 1 /\ prev = 0

RECURSIVE versionsFrom(_, _, _)
\* reads the rows of data from offset off on; last maps each identifier to
\* the version of its latest row so far
versionsFrom(data, off, last) ==
    LET r == csvRead(data, off) IN
    IF r.err = ErrEOF THEN [ok |-> TRUE, last |-> last]
    ELSE IF r.err # NoErr THEN [ok |-> FALSE, last |-> last]
    ELSE IF Len(r.rec) < 2 \/ r.rec[2] # FormatInt(ParseInt(r.rec[2]).val)
    THEN [ok |-> FALSE, last |-> last]
    ELSE IF ~Follows(IF r.rec[1] \in DOMAIN last THEN last[r.rec[1]] ELSE -1,
                     ParseInt(r.rec[2]).val)
    THEN [ok |-> FALSE, last |-> last]
    ELSE versionsFrom(data, r.next,
                      Put(last, r.rec[1], ParseInt(r.rec[2]).val))

\* the version map d.version holds the last version of each identifier
LastVersions(d, seen) ==
    /\ seen.ok
    /\ DOMAIN seen.last \subseteq DOMAIN d.version
    /\ \A id \in DOMAIN d.version :
          d.version[id] = IF id \in DOMAIN seen.last THEN seen.last[id] ELSE 0

\* C36: the rows of one identifier, in file order, carry versions of which
\* the first is 1 and each following one is the previous plus 1, or 0 after
\* a version >= 1, or 1 after 0; the version map entry of the identifier is
\* the last of them.
C36_VersionSequence == LastVersions(db, versionsFrom(db.file, 0, EmptyMap))

\* C36 witness: an identifier was created, deleted and created again
C36_Witness ==
    \E id \in Ids :
       /\ Cardinality(StartsOf(db.file, id)) = 3
       /\ verOf(db, id) = 1
       /\ VersionAt(Max(Before(id, Max(StartsOf(db.file, id))))) = 0

----------------------------------------------------------------------------
(* The locks.  Every Row Log has one mutex, taken by Create, Update,        *)
(* Delete and Get for the call and by Iter for its whole yield sequence;    *)
(* the Broker has one RWMutex.  The Store operations are sequences of Row   *)
(* Log calls; what the rows hold is left open: how many rows an iteration   *)
(* yields, whether its loop body returns early and whether a call returns   *)
(* an error are chosen freely.  mu holds the locks.                         *)

MaxYield == 2

Callers == {1, 2, 3}

Logs == {"books", "_users", "_permissions", "_schemas"}

\* one Row Log call: a plain operation or an iteration of the log
Seg(kind, log) == [kind |-> kind, log |-> log]

\* the Row Log calls an operation makes, in order, when none returns an
\* error; gets is the number of matching ownership rules Authorize meets
Plan(op, gets) ==
    CASE op \in {"Create", "Delete", "Get"} -> <<Seg("call", "books")>>
      [] op = "Update" -> <<Seg("call", "books"), Seg("call", "books")>>
      [] op = "List" -> <<Seg("iter", "books")>>
      [] op = "NewStore" -> <<Seg("iter", "_schemas")>>
      [] op = "Authenticate" -> <<Seg("call", "_users")>>
      [] op = "Authorize" ->
            <<Seg("iter", "_permissions")>>
            \o [i \in 1..gets |-> Seg("call", "books")]
      [] op \in {"Subscribe", "Unsubscribe"} -> <<Seg("wlock", "")>>
      [] op = "Publish" -> <<Seg("rlock", "")>>

StoreOps == {"Create", "Delete", "Get", "Update", "List", "NewStore",
             "Authenticate", "Subscribe", "Unsubscribe", "Publish"}

\* where a caller stands before the Row Log call seg
Entry(seg) ==
    CASE seg.kind \in {"call", "iter"} -> "lock"
      [] seg.kind = "wlock" -> "w"
      [] seg.kind = "rlock" -> "rlock"

LiveIdle == [segs |-> <<>>, left |-> 0]

\* ret after every step but the early end of an iteration
LiveRet == [op |-> "Step", arg |-> "", err |-> NoErr, out |-> NoThread]

NoLocks == [logs |-> [l \in Logs |-> NoThread], readers |-> {},
            w |-> NoThread, writing |-> FALSE]

\* Iter returns without its deferred Unlock when the loop body ended the
\* iteration
deferredUnlockOnlyAtEnd(logs, l, early) ==
    IF early THEN logs ELSE [logs EXCEPT ![l] = NoThread]

\* defer db.mu.Unlock(): runs when the call returns, also when yield
\* returned false (Iter, lines 232-233 and 257-259)
deferredUnlock(logs, l, early) == [logs EXCEPT ![l] = NoThread]

InitLive ==
    /\ db = EmptyDB
    /\ pre = EmptyDB
    /\ ret = LiveRet
    /\ track = [i \in AllIds |-> NoTrack]
    /\ nrows = 0
    /\ pc = [t \in Callers |-> "idle"]
    /\ loc = [t \in Callers |-> LiveIdle]
    /\ mu = NoLocks

LiveFrame == UNCHANGED <<db, pre, track, nrows>>

\* the caller t goes on with the Row Log calls segs, or has returned
Proceed(t, segs) ==
    /\ pc' = [pc EXCEPT ![t] = IF segs = <<>> THEN "idle"
                               ELSE Entry(Head(segs))]
    /\ loc' = [loc EXCEPT ![t] = IF segs = <<>> THEN LiveIdle
                                 ELSE [segs |-> segs, left |-> 0]]

\* the caller t invokes the operation op
LvCall(t, op, gets) ==
    /\ pc[t] = "idle"
    /\ Proceed(t, Plan(op, gets))
    /\ ret' = LiveRet
    /\ UNCHANGED mu
    /\ LiveFrame

\* db.mu.Lock(); an iteration then has n rows to yield
LvLock(t, n) ==
    /\ pc[t] = "lock"
    /\ mu.logs[Head(loc[t].segs).log] = NoThread
    /\ mu' = [mu EXCEPT !.logs[Head(loc[t].segs).log] = t]
    /\ pc' = [pc EXCEPT ![t] = "held"]
    /\ loc' = [loc EXCEPT ![t].left =
                  IF Head(loc[t].segs).kind = "iter" THEN n ELSE 0]
    /\ ret' = LiveRet
    /\ LiveFrame

\* Iter, line 257: yield(rec, nil) returns true, the loop body has run
LvYield(t) ==
    /\ pc[t] = "held"
    /\ loc[t].left > 0
    /\ loc' = [loc EXCEPT ![t].left = @ - 1]
    /\ ret' = LiveRet
    /\ UNCHANGED <<pc, mu>>
    /\ LiveFrame

\* the loop body of Store.List or NewStore returns on an error: yield
\* returns false, Iter returns, and so does the operation
LvBreak(t) ==
    /\ pc[t] = "held"
    /\ loc[t].left > 0
    /\ mu' = [mu EXCEPT !.logs =
                 deferredUnlock(mu.logs, Head(loc[t].segs).log, TRUE)]
    /\ Proceed(t, <<>>)
    /\ ret' = [op |-> "Break", arg |-> Head(loc[t].segs).log,
               err |-> "error", out |-> NoThread]
    /\ LiveFrame

\* the Row Log call returns; on an error the operation returns too
LvUnlock(t, err) ==
    /\ pc[t] = "held"
    /\ loc[t].left = 0
    /\ mu' = [mu EXCEPT !.logs =
                 deferredUnlock(mu.logs, Head(loc[t].segs).log, FALSE)]
    /\ Proceed(t, IF err THEN <<>> ELSE Tail(loc[t].segs))
    /\ ret' = LiveRet
    /\ LiveFrame

\* b.mu.Lock() of Subscribe and Unsubscribe: the writer excludes the other
\* writers and keeps new readers out
LvWLock(t) ==
    /\ pc[t] = "w"
    /\ mu.w = NoThread
    /\ mu' = [mu EXCEPT !.w = t]
    /\ pc' = [pc EXCEPT ![t] = "drain"]
    /\ ret' = LiveRet
    /\ UNCHANGED loc
    /\ LiveFrame

\* b.mu.Lock(): the writer has waited for the readers to leave
LvWDrained(t) ==
    /\ pc[t] = "drain"
    /\ mu.readers = {}
    /\ mu' = [mu EXCEPT !.writing = TRUE]
    /\ pc' = [pc EXCEPT ![t] = "writing"]
    /\ ret' = LiveRet
    /\ UNCHANGED loc
    /\ LiveFrame

\* Subscribe and Unsubscribe change the map and return: b.mu.Unlock()
LvWUnlock(t) ==
    /\ pc[t] = "writing"
    /\ mu' = [mu EXCEPT !.w = NoThread, !.writing = FALSE]
    /\ Proceed(t, <<>>)
    /\ ret' = LiveRet
    /\ LiveFrame

\* b.mu.RLock() of Publish
LvRLock(t) ==
    /\ pc[t] = "rlock"
    /\ mu.w = NoThread
    /\ mu' = [mu EXCEPT !.readers = @ \cup {t}]
    /\ pc' = [pc EXCEPT ![t] = "reading"]
    /\ ret' = LiveRet
    /\ UNCHANGED loc
    /\ LiveFrame

\* Publish has offered the event to every channel, none of the sends
\* blocks (select with default), and returns: b.mu.RUnlock()
LvRUnlock(t) ==
    /\ pc[t] = "reading"
    /\ mu' = [mu EXCEPT !.readers = @ \ {t}]
    /\ Proceed(t, <<>>)
    /\ ret' = LiveRet
    /\ LiveFrame

\* the steps of the caller t inside an operation
LvStep(t) ==
    \/ \E n \in 0..MaxYield : LvLock(t, n)
    \/ LvYield(t)
    \/ LvBreak(t)
    \/ \E err \in BOOLEAN : LvUnlock(t, err)
    \/ LvWLock(t)
    \/ LvWDrained(t)
    \/ LvWUnlock(t)
    \/ LvRLock(t)
    \/ LvRUnlock(t)

NextLive ==
    \/ \E t \in Callers, op \in StoreOps : LvCall(t, op, 0)
    \/ \E t \in Callers, gets \in 0..MaxYield : LvCall(t, "Authorize", gets)
    \/ \E t \in Callers, n \in 0..MaxYield : LvLock(t, n)
    \/ \E t \in Callers : LvYield(t)
    \/ \E t \in Callers : LvBreak(t)
    \/ \E t \in Callers, err \in BOOLEAN : LvUnlock(t, err)
    \/ \E t \in Callers : LvWLock(t)
    \/ \E t \in Callers : LvWDrained(t)
    \/ \E t \in Callers : LvWUnlock(t)
    \/ \E t \in Callers : LvRLock(t)
    \/ \E t \in Callers : LvRUnlock(t)

SpecLocks == InitLive /\ [][NextLive]_vars

\* a goroutine that can run does run, and sync.Mutex and sync.RWMutex hand
\* the lock to a goroutine that keeps waiting for it (starvation mode)
SpecLive == SpecLocks /\ \A t \in Callers : SF_vars(LvStep(t))

\* the locks the caller t holds
HeldBy(t) ==
    {l \in Logs : mu.logs[l] = t}
    \cup (IF t \in mu.readers \/ mu.w = t THEN {"broker"} ELSE {})

\* a caller that has returned holds no lock, and a caller that waits for
\* a lock holds no other
OneLockAtATime ==
    \A t \in Callers :
       /\ pc[t] = "idle" => HeldBy(t) = {}
       /\ pc[t] \in {"lock", "w", "rlock"} => HeldBy(t) = {}
       /\ Cardinality(HeldBy(t)) <= 1

\* C40: every invoked operation eventually returns; the Row Log lock is
\* free again when an iteration ended early; no caller waits for one lock
\* while holding another.
C40_DeadlockFreedom ==
    /\ []OneLockAtATime
    /\ [](ret.op = "Break" => mu.logs[ret.arg] = NoThread)
    /\ \A t \in Callers : (pc[t] # "idle") ~> (pc[t] = "idle")

\* C40 witness: an iteration of books has just ended early while two other
\* callers wait for the lock of books
C40_Witness ==
    /\ ret.op = "Break"
    /\ ret.arg = "books"
    /\ Cardinality({t \in Callers : /\ pc[t] = "lock"
                                    /\ Head(loc[t].segs).log = "books"}) = 2

============================================================================
